---- MODULE Spec2Model ----
(***************************************************************************)
(* Retrieval core of the pnld-ai-service: hybrid search fusion             *)
(* (app/services/hybrid_search.py), the two-tier semantic cache            *)
(* (app/services/cache_manager.py), the cross-encoder reranker             *)
(* (app/services/reranker.py) and the MMR context selector                 *)
(* (app/services/mmr_selector.py).                                         *)
(*                                                                         *)
(* Numbers.  Fusion scores are the exact rationals w/(k+r), represented as *)
(* integers scaled by RRFScale (a common multiple of every k+r in range)   *)
(* with the weights in tenths.  Similarities of unit vectors are compared  *)
(* exactly through squared integer dot products.                           *)
(*                                                                         *)
(* Strings.  Cache keys, cache types and patterns are sequences of         *)
(* one-character strings, so startswith and glob matching are computed.    *)
(* Every key of the store carries the literal prefix "rag:", which is left *)
(* out on both sides of every comparison.                                  *)
(***************************************************************************)
EXTENDS Integers, Sequences, FiniteSets, TLC

VARIABLES
    \* ---- HybridSearcher ----
    vector_weight,    \* self.vector_weight, in tenths
    bm25_weight,      \* self.bm25_weight, in tenths
    h_pc,             \* position of the search() call
    limit,            \* search(limit=...)
    vector_task,      \* coroutine object of search_similar_documents(...)
    bm25_task,        \* coroutine object of search_bm25(...)
    vector_results,   \* list received from the dense branch
    bm25_results,     \* list received from the lexical branch
    fused_results,    \* list returned by _reciprocal_rank_fusion
    h_return,         \* value returned by search()
    h_raised,         \* exception leaving search(), or NoError
    \* ---- SemanticCache ----
    max_index_size,   \* self.max_index_size
    redis,            \* string keys of the key/value store: key -> bytes, expiry
    stats,            \* the hash "rag:stats": field -> counter
    index,            \* self.index: the vectors held by the FAISS index
    query_cache,      \* self.query_cache: index position -> store key
    cache_embeddings, \* self.cache_embeddings
    call,             \* the cache call made last, with what it did
    written,          \* history: key -> the value last written and the seconds it has left
    redis_client,     \* self.redis: None until connect() assigns the client
    c_raised,         \* exception leaving the last cache call, or NoError
    store_fault,      \* history: the store commands that failed during the last call
    tasks,            \* concurrent get_or_compute calls: task -> position and locals
    t_args,           \* the arguments the concurrent calls were made with
    \* ---- Reranker ----
    r_model,          \* self.model: None until _load_model succeeds
    r_pc,             \* position of the rerank() call
    r_query,          \* rerank(query=...)
    r_documents,      \* rerank(documents=...), the caller's list
    r_top_k,          \* rerank(top_k=...)
    r_stage,          \* history: the step of rerank() that raised, or why it returned early
    r_return,         \* value returned by rerank()
    r_raised,         \* exception leaving rerank(), or NoError
    \* ---- MMRSelector ----
    lambda_param,     \* self.lambda_param, in tenths
    m_pc,             \* position of the select_diverse() call
    m_query_embedding,\* select_diverse(query_embedding=...)
    m_documents,      \* select_diverse(documents=...), the caller's list
    m_max_documents,  \* select_diverse(max_documents=...)
    m_max_tokens,     \* select_diverse(max_tokens=...)
    m_stage,          \* history: the path select_diverse() took
    m_return,         \* value returned by select_diverse()
    m_raised,         \* exception leaving select_diverse(), or NoError
    \* ---- generate_rag_response ----
    settings,         \* app.config.settings: USE_RERANKING and USE_MMR
    p_pc,             \* position of the request in the pipeline
    p_query,          \* generate_rag_response(query=...)
    similar_docs,     \* the local similar_docs
    p_retrieved,      \* history: the list retrieval answered
    p_context,        \* the context built from similar_docs
    p_raised,         \* exception leaving generate_rag_response, or NoError
    \* ---- generate_cache_key ----
    k_calls,          \* the calls made: their positional and keyword arguments
    k_keys,           \* the key each call returned, NoKey until it has
    \* ---- QueryProcessor ----
    q_pc,             \* position of the call
    q_fn,             \* the method called: process or _classify_intent
    q_arg,            \* its argument
    q_return,         \* the value returned
    \* ---- a semantic lookup beside a writer ----
    lookup,           \* a _find_similar_cached call: its position and locals
    writer,           \* a coroutine that calls set(): its position and arguments
    inserted,         \* history: the (key, vector) pairs handed to the index
    \* ---- get_or_compute callers beside reset_stats ----
    callers,          \* get_or_compute coroutines: caller -> position and arguments
    completed         \* history: calls started, and calls returned since the last reset

hvars == <<vector_weight, bm25_weight, h_pc, limit, vector_task, bm25_task,
           vector_results, bm25_results, fused_results, h_return, h_raised>>

cvars == <<max_index_size, redis, stats, index, query_cache, cache_embeddings,
           call, written>>

svars == <<redis_client, c_raised, store_fault>>

\* everything outside the searcher and the cache's own structures
tvars == <<tasks, t_args>>

rvars == <<r_model, r_pc, r_query, r_documents, r_top_k, r_stage, r_return, r_raised>>

mvars == <<lambda_param, m_pc, m_query_embedding, m_documents, m_max_documents, m_max_tokens,
           m_stage, m_return, m_raised>>

evars == <<svars, tvars, rvars, mvars>>

pvars == <<settings, p_pc, p_query, similar_docs, p_retrieved, p_context, p_raised>>

\* the callers of the retrieval stages and the pure helpers
kvars == <<k_calls, k_keys>>

qvars == <<q_pc, q_fn, q_arg, q_return>>

lvars == <<lookup, writer, inserted>>

uvars == <<callers, completed>>

avars == <<pvars, kvars, qvars, lvars, uvars>>

vars == <<hvars, cvars, evars, avars>>

----------------------------------------------------------------------------
\* Bounds of the model

\* longest result list a retrieval collaborator returns
MaxLen == 2
\* number of distinct chunk ids in the corpus
NumIds == 3
\* largest limit passed to search()
MaxLimit == 2
\* number of cache calls in a run
MaxOps == 3
\* number of insertions into the semantic index in a run
MaxInserts == 5
\* number of cache calls in a run against a store that may fail
MaxFaultyOps == 2
\* longest list handed to the reranker
MaxDocs == 2
\* largest top_k passed to rerank()
MaxTopK == 2
\* longest list handed to the MMR selector, and largest max_documents
MaxCandidates == 3
\* largest max_tokens passed to select_diverse()
MaxBudget == 3
\* most set() calls of the writer beside a lookup
MaxWrites == 4

----------------------------------------------------------------------------
\* Generic helpers

Min(a, b) == IF a < b THEN a ELSE b

\* Python slice s[:n] for n >= 0
Take(s, n) == SubSeq(s, 1, Min(n, Len(s)))

\* all sequences over S of length at most n
SeqsUpTo(S, n) == UNION {[1..m -> S] : m \in 0..n}

RECURSIVE SumOver(_, _)
\* sum of f[x] over the finite set S
SumOver(S, f) ==
    IF S = {} THEN 0
    ELSE LET x == CHOOSE y \in S : TRUE IN f[x] + SumOver(S \ {x}, f)

----------------------------------------------------------------------------
\* Dictionaries.  A chunk is a dictionary; a stage that annotates a chunk
\* writes its items to a dictionary it got from the chunk.

\* mutant: the stage writes to the chunk it was handed
DictCopy_alias(doc) == [object |-> "same", value |-> doc]

\* doc.copy() and {**doc}: a new dictionary with the items of doc
DictCopy(doc) == [object |-> "new", value |-> doc]

\* target[key] = value for every item of `items`
SetItems(target, items) == [target EXCEPT !.value = items @@ @]

\* what the caller's chunk doc holds once the stage has written to `target`,
\* the dictionary it got from doc
Held(doc, target) == IF target.object = "same" THEN target.value ELSE doc

----------------------------------------------------------------------------
\* Chunks produced by the retrieval collaborators

\* a record without an id (doc.get("id") is None)
NoId == 0
\* a field the record does not carry
Absent == -1
\* no exception
NoError == "none"

Ids == 1..NumIds

\* similarity the dense collaborator reports for a chunk (hundredths)
Similarity(id) == 90 - 10 * id
\* score the lexical collaborator reports for a chunk (hundredths)
Bm25Score(id) == 10 + 10 * id

\* record built by search_similar_documents for one row
DenseChunk(id) == [id |-> id, similarity |-> Similarity(id), bm25_score |-> Absent]
\* record built by search_bm25 for one row
LexicalChunk(id) == [id |-> id, similarity |-> Absent, bm25_score |-> Bm25Score(id)]

\* lists of rows a collaborator may answer with: any order, repeats and
\* rows without id included
RowLists == SeqsUpTo(Ids \cup {NoId}, MaxLen)

DenseList(rows) == [i \in 1..Len(rows) |-> DenseChunk(rows[i])]
LexicalList(rows) == [i \in 1..Len(rows) |-> LexicalChunk(rows[i])]

----------------------------------------------------------------------------
\* Reciprocal Rank Fusion

rrf_k == 60

RECURSIVE ScaleUpTo(_)
ScaleUpTo(n) == IF n = 0 THEN 1 ELSE (rrf_k + n) * ScaleUpTo(n - 1)

\* fusion scores are stored multiplied by RRFScale / 10
RRFScale == ScaleUpTo(MaxLen)

\* mutant: ranks counted from 0 instead of 1
RRFContribution_zero_based(weight, rank) == weight * (RRFScale \div (rrf_k + rank - 1))

\* weight / (rrf_k + rank)
RRFContribution(weight, rank) == weight * (RRFScale \div (rrf_k + rank))

\* doc.get(field, 0.0)
GetOr0(v) == IF v = Absent THEN 0 ELSE v

\* the dictionaries rrf_scores and doc_data before the first loop; `order`
\* is their common insertion order
EmptyAcc == [order |-> <<>>,
             rrf_scores |-> [i \in Ids |-> 0],
             doc_data |-> [i \in Ids |-> [id |-> NoId]]]

InOrder(order, id) == \E i \in 1..Len(order) : order[i] = id

\* mutant: a chunk already present is inserted again
AccInsert_no_dedup(acc, doc) ==
    [acc EXCEPT !.order = Append(@, doc.id),
                !.doc_data[doc.id] = [id |-> doc.id, similarity |-> doc.similarity,
                                      bm25_score |-> doc.bm25_score,
                                      source_methods |-> <<>>]]

\* if doc_id not in doc_data: doc_data[doc_id] = {**doc, "source_methods": []}
AccInsert(acc, doc) ==
    IF InOrder(acc.order, doc.id) THEN acc
    ELSE [acc EXCEPT !.order = Append(@, doc.id),
                     !.doc_data[doc.id] =
                         SetItems(DictCopy(doc), [source_methods |-> <<>>]).value]

\* one iteration of either scoring loop, for a row that has an id
ScoreDoc(acc, doc, rank, weight, method) ==
    LET ins == AccInsert(acc, doc)
        sc  == IF method = "vector" THEN GetOr0(doc.similarity) ELSE GetOr0(doc.bm25_score)
    IN [ins EXCEPT !.rrf_scores[doc.id] = @ + RRFContribution(weight, rank),
                   !.doc_data[doc.id].source_methods =
                        Append(@, [method |-> method, rank |-> rank, score |-> sc])]

RECURSIVE ScoreResults(_, _, _, _, _)
\* for rank, doc in enumerate(results, 1): ... from position `rank` on
ScoreResults(results, rank, weight, method, acc) ==
    IF rank > Len(results) THEN acc
    ELSE IF results[rank].id = NoId
         THEN ScoreResults(results, rank + 1, weight, method, acc)
         ELSE ScoreResults(results, rank + 1, weight, method,
                           ScoreDoc(acc, results[rank], rank, weight, method))

\* mutant: an element overtakes the elements of equal score
InsertDesc_unstable(sorted, id, score) ==
    LET before == {i \in 1..Len(sorted) : score[sorted[i]] > score[id]}
        n == Cardinality(before)
    IN SubSeq(sorted, 1, n) \o <<id>> \o SubSeq(sorted, n + 1, Len(sorted))

\* place id after every element whose score is at least its own
InsertDesc(sorted, id, score) ==
    LET before == {i \in 1..Len(sorted) : score[sorted[i]] >= score[id]}
        n == Cardinality(before)
    IN SubSeq(sorted, 1, n) \o <<id>> \o SubSeq(sorted, n + 1, Len(sorted))

RECURSIVE SortedDesc(_, _, _)
\* sorted(rrf_scores.items(), key=lambda x: x[1], reverse=True): a stable
\* sort, equal scores keep the dictionary's insertion order
SortedDesc(order, n, score) ==
    IF n = 0 THEN <<>>
    ELSE InsertDesc(SortedDesc(order, n - 1, score), order[n], score)

\* HybridSearcher._reciprocal_rank_fusion
ReciprocalRankFusion(vw, bw, vres, bres) ==
    LET acc1 == ScoreResults(vres, 1, vw, "vector", EmptyAcc)
        acc2 == ScoreResults(bres, 1, bw, "bm25", acc1)
        sorted_doc_ids == SortedDesc(acc2.order, Len(acc2.order), acc2.rrf_scores)
    IN [i \in 1..Len(sorted_doc_ids) |->
          [rrf_score |-> acc2.rrf_scores[sorted_doc_ids[i]], hybrid_rank |-> i]
              @@ acc2.doc_data[sorted_doc_ids[i]]]

\* the items _reciprocal_rank_fusion has written to the dictionary of a chunk
FusionItems(fused) ==
    [source_methods |-> fused.source_methods, rrf_score |-> fused.rrf_score,
     hybrid_rank |-> fused.hybrid_rank]

\* one of the lists handed to _reciprocal_rank_fusion, after the call: the
\* dictionary of an id is made from the first row that has the id, the rows
\* of `earlier` coming first
RowsAfterFusion(results, earlier, fused) ==
    [i \in 1..Len(results) |->
        LET doc == results[i]
            seen == \/ \E j \in 1..Len(earlier) : earlier[j].id = doc.id
                    \/ \E j \in 1..(i - 1) : results[j].id = doc.id
        IN IF doc.id = NoId \/ seen THEN doc
           ELSE LET f == CHOOSE n \in 1..Len(fused) : fused[n].id = doc.id
                IN Held(doc, SetItems(DictCopy(doc), FusionItems(fused[f])))]

----------------------------------------------------------------------------
\* HybridSearcher.search

\* what a branch does when it is run: the dense branch answers or raises;
\* the lexical branch answers, answers [] after a failed RPC (caught inside
\* search_bm25), or raises when the client cannot be obtained
VectorOutcomes == {"ok", "raise"}
Bm25Outcomes == {"ok", "rpc_error", "raise"}

\* a coroutine object: created by calling the async function, started and
\* driven by the task gather() wraps it in
Coroutine(outcome, rows) == [state |-> "created", outcome |-> outcome, rows |-> rows]

\* weights the searcher is constructed with (tenths)
WeightConfigs == {<<6, 4>>, <<5, 5>>}

HInit ==
    /\ \E w \in WeightConfigs : vector_weight = w[1] /\ bm25_weight = w[2]
    /\ h_pc = "idle"
    /\ limit = 0
    /\ vector_task = Coroutine("ok", <<>>)
    /\ bm25_task = Coroutine("ok", <<>>)
    /\ vector_results = <<>>
    /\ bm25_results = <<>>
    /\ fused_results = <<>>
    /\ h_return = <<>>
    /\ h_raised = NoError

\* search() up to the await: both coroutine objects are created
SearchCall ==
    /\ h_pc = "idle"
    /\ \E l \in 0..MaxLimit, vo \in VectorOutcomes, bo \in Bm25Outcomes,
          vrows \in RowLists, brows \in RowLists :
          /\ Len(vrows) <= 2 * l
          /\ Len(brows) <= 2 * l
          /\ (vo = "raise" => vrows = <<>>)
          /\ (bo # "ok" => brows = <<>>)
          /\ limit' = l
          /\ vector_task' = Coroutine(vo, vrows)
          /\ bm25_task' = Coroutine(bo, brows)
    /\ h_pc' = "gather"
    /\ UNCHANGED <<vector_weight, bm25_weight, vector_results, bm25_results,
                   fused_results, h_return, h_raised>>

\* states a coroutine can be in when gather() hands the first exception to
\* search(): it has been started by its task; it has finished if it is the
\* one that raised, and is finished or still suspended otherwise
StatesAfterGather(task) ==
    IF task.outcome = "raise" THEN {"finished"} ELSE {"suspended", "finished"}

\* await asyncio.gather(vector_task, bm25_task)
Gather ==
    /\ h_pc = "gather"
    /\ IF vector_task.outcome = "raise" \/ bm25_task.outcome = "raise"
       THEN /\ \E vs \in StatesAfterGather(vector_task),
                  bs \in StatesAfterGather(bm25_task) :
                  /\ vector_task' = [vector_task EXCEPT !.state = vs]
                  /\ bm25_task' = [bm25_task EXCEPT !.state = bs]
            /\ h_pc' = "except"
            /\ UNCHANGED <<vector_results, bm25_results>>
       ELSE /\ vector_task' = [vector_task EXCEPT !.state = "finished"]
            /\ bm25_task' = [bm25_task EXCEPT !.state = "finished"]
            /\ vector_results' = DenseList(vector_task.rows)
            /\ bm25_results' = LexicalList(bm25_task.rows)
            /\ h_pc' = "fuse"
    /\ UNCHANGED <<vector_weight, bm25_weight, limit, fused_results, h_return, h_raised>>

\* mutant: the fallback obtains the dense result whenever the dense branch
\* itself did not raise
AwaitCoroutine_rerun(task) ==
    IF task.outcome = "raise" THEN [raised |-> "Exception", value |-> <<>>]
    ELSE [raised |-> NoError, value |-> DenseList(task.rows)]

\* `await coro` on a coroutine object: runs it if it was never started; a
\* suspended one raises RuntimeError("coroutine is being awaited already"),
\* a finished one RuntimeError("cannot reuse already awaited coroutine")
AwaitCoroutine(task) ==
    IF task.state = "created"
    THEN IF task.outcome = "raise" THEN [raised |-> "Exception", value |-> <<>>]
         ELSE [raised |-> NoError, value |-> DenseList(task.rows)]
    ELSE [raised |-> "RuntimeError", value |-> <<>>]

\* except Exception: vector_results = await vector_task; bm25_results = []
Fallback ==
    /\ h_pc = "except"
    /\ LET r == AwaitCoroutine(vector_task)
       IN IF r.raised # NoError
          THEN /\ h_raised' = r.raised
               /\ h_pc' = "done"
               /\ UNCHANGED <<vector_results, bm25_results>>
          ELSE /\ vector_results' = r.value
               /\ bm25_results' = <<>>
               /\ h_pc' = "fuse"
               /\ UNCHANGED h_raised
    /\ UNCHANGED <<vector_weight, bm25_weight, limit, vector_task, bm25_task,
                   fused_results, h_return>>

\* fused_results = self._reciprocal_rank_fusion(...); return fused_results[:limit]
Fuse ==
    /\ h_pc = "fuse"
    /\ fused_results' = ReciprocalRankFusion(vector_weight, bm25_weight,
                                             vector_results, bm25_results)
    /\ h_return' = Take(fused_results', limit)
    /\ vector_results' = RowsAfterFusion(vector_results, <<>>, fused_results')
    /\ bm25_results' = RowsAfterFusion(bm25_results, vector_results, fused_results')
    /\ h_pc' = "done"
    /\ UNCHANGED <<vector_weight, bm25_weight, limit, vector_task, bm25_task, h_raised>>


----------------------------------------------------------------------------
\* Strings

\* s.startswith(p)
StartsWith(s, p) == Len(p) <= Len(s) /\ SubSeq(s, 1, Len(p)) = p

\* mutant: the scan finds no key
GlobMatch_never(p, s) == FALSE

RECURSIVE GlobMatch(_, _)
\* the store's glob matching of pattern p against key s ("*" matches any run
\* of characters, every other character matches itself)
GlobMatch(p, s) ==
    IF p = <<>> THEN s = <<>>
    ELSE IF Head(p) = "*"
         THEN \/ GlobMatch(Tail(p), s)
              \/ s # <<>> /\ GlobMatch(p, Tail(s))
         ELSE s # <<>> /\ Head(s) = Head(p) /\ GlobMatch(Tail(p), Tail(s))

\* cache types in use; the first is a prefix of the second
CacheTypes == {<<"s">>, <<"s", "r">>}

\* keys callers use: two built as generate_cache_key builds them,
\* "<cache type>:<hash>", and one chosen freely
KeyS == <<"s", ":", "1">>
KeySR == <<"s", "r", ":", "1">>
KeyQ == <<"q", "1">>
Keys == {KeyS, KeySR, KeyQ}

\* the cache_type argument that accompanies each key
CacheTypeOf(key) == IF key = KeySR THEN <<"s", "r">> ELSE <<"s">>

\* the key of the statistics hash, "rag:stats"
StatsKey == <<"s", "t", "a", "t", "s">>

\* patterns handed to invalidate_pattern
Patterns == {<<"s", ":">>, <<"s", "r", ":", "*">>, <<"q">>}

----------------------------------------------------------------------------
\* Values and embeddings

\* Python's None
None == "None"

\* what compute_func returns and what callers store
Values == {"v1", "v2", None}

\* pickle.dumps(value): a non-empty byte string
PickleDumps(v) == <<"pickle", v>>
\* pickle.loads(data)
PickleLoads(b) == b[2]

\* embedding vectors; the first two are within the similarity threshold of
\* each other, the third is orthogonal to the first
Embeddings == {<<4, 0>>, <<4, 1>>, <<0, 4>>}

\* self.similarity_threshold = 0.95 = ThresholdNum / ThresholdDen
ThresholdNum == 95
ThresholdDen == 100

Dot(a, b) == a[1] * b[1] + a[2] * b[2]

\* inner product of the L2-normalised vectors is at least the threshold
AtLeastThreshold(a, b) ==
    /\ Dot(a, b) >= 0
    /\ Dot(a, b) * Dot(a, b) * ThresholdDen * ThresholdDen
         >= ThresholdNum * ThresholdNum * Dot(a, a) * Dot(b, b)

\* the normalised inner product of q with a is strictly larger than with b
Nearer(q, a, b) ==
    LET da == Dot(q, a)
        db == Dot(q, b)
    IN IF da >= 0 /\ db >= 0 THEN da * da * Dot(b, b) > db * db * Dot(a, a)
       ELSE IF da >= 0 THEN TRUE
       ELSE IF db >= 0 THEN FALSE
       ELSE da * da * Dot(b, b) < db * db * Dot(a, a)

----------------------------------------------------------------------------
\* The key/value store.  An entry holds the bytes and the seconds it has
\* left to live.

\* a key that holds nothing
NoEntry == [data |-> <<>>, ttl |-> 0]

\* GET key: the bytes, or the empty string standing for a nil reply
RedisGet(r, key) == r[key].data

\* mutant: the entry lives a second too long
RedisSetex_longer(r, key, ttl, data) == [r EXCEPT ![key] = [data |-> data, ttl |-> ttl + 1]]

\* SETEX key ttl data
RedisSetex(r, key, ttl, data) == [r EXCEPT ![key] = [data |-> data, ttl |-> ttl]]

\* what a second does to the string keys: those out of time are dropped
RedisAge(r) ==
    [k \in DOMAIN r |-> IF r[k].ttl <= 1 THEN NoEntry ELSE [r[k] EXCEPT !.ttl = @ - 1]]

\* self.ttl_config, per cache type, in seconds
ttl_config == [t \in CacheTypes |-> IF t = <<"s">> THEN 2 ELSE 1]

\* the ttl argument: None, or an explicit number of seconds
NoTtl == 0
TtlArgs == {NoTtl, 1}

\* fields of the statistics hash
ExactName == <<"e", "x", "a", "c", "t">>
SemanticName == <<"s", "e", "m", "a", "n", "t", "i", "c">>
HitsField(name) == <<"hits_", name>>
MissesField(name) == <<"misses_", name>>
TotalHits == <<"total_hits", <<>>>>
TotalMisses == <<"total_misses", <<>>>>
StatFields == {TotalHits, TotalMisses}
              \cup {HitsField(n) : n \in CacheTypes \cup {ExactName, SemanticName}}
              \cup {MissesField(n) : n \in CacheTypes \cup {ExactName}}

\* the hash does not exist
NoStats == [f \in StatFields |-> 0]

\* HINCRBY rag:stats field 1
Hincrby(st, field) == [st EXCEPT ![field] = @ + 1]

\* SemanticCache._record_hit
RecordHit(st, hit_type, cache_type) ==
    Hincrby(Hincrby(Hincrby(st, HitsField(hit_type)), HitsField(cache_type)), TotalHits)

\* SemanticCache._record_miss
RecordMiss(st, cache_type) == Hincrby(Hincrby(st, TotalMisses), MissesField(cache_type))

\* SemanticCache.get
Get(r, key) ==
    LET cached == RedisGet(r, key)
    IN IF cached # <<>> THEN PickleLoads(cached) ELSE None

----------------------------------------------------------------------------
\* The semantic index

\* max_index_size when none is configured
DefaultMaxIndexSize == 10000

\* keep_items of _rebuild_index_limited: 5000 in the source, scaled down
\* here together with the configured sizes it is compared with
KeepItems == 3

\* no embedding supplied (semantic_key is None)
NoEmbedding == <<>>

\* the three structures that make up the semantic index; position i of the
\* source's list and dictionary is position i + 1 here
Index(ix, qc, ce) == [index |-> ix, query_cache |-> qc, cache_embeddings |-> ce]

\* Python slice lst[-n:] for n > 0
LastN(lst, n) == SubSeq(lst, Len(lst) - Min(n, Len(lst)) + 1, Len(lst))

\* SemanticCache._rebuild_index_limited.  Reading a position the dictionary
\* does not hold raises KeyError before anything is assigned, and the
\* handler only logs it.
RebuildIndexLimited(sx, keep_items) ==
    LET ntotal == Len(sx.index)
        recent_embeddings == LastN(sx.cache_embeddings, keep_items)
    IN IF \E i \in 1..keep_items : i + (ntotal - keep_items) \notin DOMAIN sx.query_cache
       THEN sx
       ELSE Index(recent_embeddings,
                  [i \in 1..keep_items |-> sx.query_cache[i + (ntotal - keep_items)]],
                  recent_embeddings)

\* mutant: a key already indexed is not indexed again
AddToSemanticIndex_once(sx, cache_key, embedding, max_size) ==
    IF \E p \in DOMAIN sx.query_cache : sx.query_cache[p] = cache_key
    THEN sx
    ELSE Index(Append(sx.index, embedding),
               [p \in (DOMAIN sx.query_cache) \cup {Len(sx.index) + 1} |->
                   IF p = Len(sx.index) + 1 THEN cache_key ELSE sx.query_cache[p]],
               Append(sx.cache_embeddings, embedding))

\* SemanticCache._add_to_semantic_index
AddToSemanticIndex(sx, cache_key, embedding, max_size) ==
    LET idx == Len(sx.index) + 1
        added == Index(Append(sx.index, embedding),
                       [p \in (DOMAIN sx.query_cache) \cup {idx} |->
                           IF p = idx THEN cache_key ELSE sx.query_cache[p]],
                       Append(sx.cache_embeddings, embedding))
    IN IF Len(added.index) > max_size
       THEN RebuildIndexLimited(added, KeepItems)
       ELSE added

\* k of _find_similar_cached
TopK == 5

\* cache_key.startswith(f"rag:{cache_type}")
TypeMatches(cache_key, cache_type) == StartsWith(cache_key, cache_type)

\* the positions whose value the loop of _find_similar_cached would return
Accepted(sx, r, q, cache_type) ==
    {p \in 1..Len(sx.index) :
        /\ AtLeastThreshold(q, sx.index[p])
        /\ p \in DOMAIN sx.query_cache
        /\ TypeMatches(sx.query_cache[p], cache_type)
        /\ RedisGet(r, sx.query_cache[p]) # <<>>}

\* number of indexed vectors strictly nearer to q than position p
NearerCount(sx, q, p) ==
    Cardinality({o \in 1..Len(sx.index) : Nearer(q, sx.index[o], sx.index[p])})

\* nothing found
NotFound == [key |-> <<>>, value |-> None]

\* SemanticCache._find_similar_cached: what the call can return, with the
\* key it was read from.  The index answers with the min(k, ntotal) nearest
\* positions, nearest first, and the value of the first accepted one is
\* returned.  The order of equally near positions is the index's choice,
\* hence a set.
FindSimilarCached(sx, r, q, cache_type) ==
    LET acc == Accepted(sx, r, q, cache_type)
        first == {p \in acc : /\ NearerCount(sx, q, p) < Min(TopK, Len(sx.index))
                              /\ \A o \in acc : ~Nearer(q, sx.index[o], sx.index[p])}
    IN IF first = {} THEN {NotFound}
       ELSE {[key |-> sx.query_cache[p],
              value |-> PickleLoads(RedisGet(r, sx.query_cache[p]))] : p \in first}

\* SemanticCache.set, on the store and the index
Set(r, sx, key, value, ttl, semantic_key, cache_type, max_size) ==
    LET secs == IF ttl = NoTtl THEN ttl_config[cache_type] ELSE ttl
    IN [redis |-> RedisSetex(r, key, secs, PickleDumps(value)),
        sx |-> IF semantic_key # NoEmbedding
               THEN AddToSemanticIndex(sx, key, semantic_key, max_size)
               ELSE sx]

----------------------------------------------------------------------------
\* Cache calls

SX == Index(index, query_cache, cache_embeddings)

\* the call record: which operation ran, on what, and what it did
Call(n, op, key, cache_type, emb, hit, computed, value, src) ==
    [n |-> n, op |-> op, key |-> key, cache_type |-> cache_type, emb |-> emb,
     hit |-> hit, computed |-> computed, value |-> value, src |-> src]

NoCall == Call(0, "none", <<>>, <<>>, NoEmbedding, "none", FALSE, None, <<>>)

\* a key nobody wrote, or whose value is gone
Unwritten == [value |-> None, left |-> 0]

\* SemanticCache.__init__ followed by connect(), as get_semantic_cache does
CacheConstructed(max_size) ==
    /\ max_index_size = max_size
    /\ redis = [k \in Keys |-> NoEntry]
    /\ stats = NoStats
    /\ index = <<>>
    /\ query_cache = <<>>
    /\ cache_embeddings = <<>>
    /\ call = NoCall
    /\ written = [k \in Keys |-> Unwritten]

SetIndex(sx) ==
    /\ index' = sx.index
    /\ query_cache' = sx.query_cache
    /\ cache_embeddings' = sx.cache_embeddings

\* history: key was written with value for ttl seconds (the type's default
\* when no ttl is given)
Wrote(key, cache_type, ttl, value) ==
    written' = [written EXCEPT ![key] =
                   [value |-> value,
                    left |-> IF ttl = NoTtl THEN ttl_config[cache_type] ELSE ttl]]

\* await cache.get_or_compute(key, compute_func, ttl, semantic_key, cache_type),
\* where compute_func returns `result` when it is invoked
GetOrCompute(key, cache_type, ttl, semantic_key, result) ==
    /\ call.n < MaxOps
    /\ LET cached == Get(redis, key) IN
       IF cached # None
       THEN /\ stats' = RecordHit(stats, ExactName, cache_type)
            /\ call' = Call(call.n + 1, "get_or_compute", key, cache_type, semantic_key,
                            "exact", FALSE, cached, key)
            /\ UNCHANGED <<redis, index, query_cache, cache_embeddings, written>>
       ELSE \E found \in (IF semantic_key # NoEmbedding
                          THEN FindSimilarCached(SX, redis, semantic_key, cache_type)
                          ELSE {NotFound}) :
            IF found.value # None
            THEN /\ stats' = RecordHit(stats, SemanticName, cache_type)
                 /\ call' = Call(call.n + 1, "get_or_compute", key, cache_type, semantic_key,
                                 "semantic", FALSE, found.value, found.key)
                 /\ UNCHANGED <<redis, index, query_cache, cache_embeddings, written>>
            ELSE LET after == Set(redis, SX, key, result, ttl, semantic_key,
                                  cache_type, max_index_size)
                 IN /\ stats' = RecordMiss(stats, cache_type)
                    /\ redis' = after.redis
                    /\ SetIndex(after.sx)
                    /\ Wrote(key, cache_type, ttl, result)
                    /\ call' = Call(call.n + 1, "get_or_compute", key, cache_type,
                                    semantic_key, "miss", TRUE, result, <<>>)
    /\ UNCHANGED max_index_size

\* await cache.get(key)
GetCall(key) ==
    /\ call.n < MaxOps
    /\ call' = Call(call.n + 1, "get", key, <<>>, NoEmbedding, "none", FALSE,
                    Get(redis, key), <<>>)
    /\ UNCHANGED <<max_index_size, redis, stats, index, query_cache, cache_embeddings,
                   written>>

\* await cache.set(key, value, ttl, semantic_key, cache_type)
SetCall(key, cache_type, ttl, semantic_key, value) ==
    /\ call.n < MaxOps
    /\ LET after == Set(redis, SX, key, value, ttl, semantic_key, cache_type,
                        max_index_size)
       IN /\ redis' = after.redis
          /\ SetIndex(after.sx)
    /\ Wrote(key, cache_type, ttl, value)
    /\ call' = Call(call.n + 1, "set", key, cache_type, semantic_key, "none", FALSE,
                    value, <<>>)
    /\ UNCHANGED <<max_index_size, stats>>

\* the keys a pattern names: those that begin with the pattern, its own
\* trailing "*" aside
Names(pattern, key) ==
    StartsWith(key, IF pattern # <<>> /\ pattern[Len(pattern)] = "*"
                    THEN SubSeq(pattern, 1, Len(pattern) - 1)
                    ELSE pattern)

\* await cache.invalidate_pattern(pattern): SCAN MATCH rag:<pattern>* and
\* DELETE of every key found, the statistics hash included when it matches
InvalidatePattern(pattern) ==
    /\ call.n < MaxOps
    /\ redis' = [k \in Keys |-> IF GlobMatch(pattern \o <<"*">>, k) THEN NoEntry ELSE redis[k]]
    /\ stats' = IF GlobMatch(pattern \o <<"*">>, StatsKey) THEN NoStats ELSE stats
    /\ written' = [k \in Keys |-> IF Names(pattern, k) THEN Unwritten ELSE written[k]]
    /\ call' = Call(call.n + 1, "invalidate_pattern", pattern, <<>>, NoEmbedding, "none",
                    FALSE, None, <<>>)
    /\ UNCHANGED <<max_index_size, index, query_cache, cache_embeddings>>

\* one second passes; the store drops the keys whose time to live is over
Tick ==
    /\ \E k \in Keys : written[k] # Unwritten \/ redis[k] # NoEntry
    /\ redis' = RedisAge(redis)
    /\ written' = [k \in Keys |-> IF written[k].left <= 1 THEN Unwritten
                                  ELSE [written[k] EXCEPT !.left = @ - 1]]
    /\ UNCHANGED <<max_index_size, stats, index, query_cache, cache_embeddings, call>>

\* await cache.reset_stats(): DELETE rag:stats
ResetStats ==
    /\ call.n < MaxOps
    /\ stats' = NoStats
    /\ call' = Call(call.n + 1, "reset_stats", <<>>, <<>>, NoEmbedding, "none", FALSE,
                    None, <<>>)
    /\ UNCHANGED <<max_index_size, redis, index, query_cache, cache_embeddings, written>>

\* a direct call of _add_to_semantic_index
AddToIndexCall(key, embedding) ==
    /\ call.n < MaxInserts
    /\ SetIndex(AddToSemanticIndex(SX, key, embedding, max_index_size))
    /\ call' = Call(call.n + 1, "_add_to_semantic_index", key, <<>>, embedding, "none",
                    FALSE, None, <<>>)
    /\ UNCHANGED <<max_index_size, redis, stats, written>>

----------------------------------------------------------------------------
\* The store failing.  A call of get_or_compute against a store whose
\* commands may raise; `fault` says which commands raise during the call.

\* self.redis
NoClient == "None"
Client == "Redis"

\* how connect() ends: normally, with from_url raising (self.redis stays
\* None) or with ping raising (self.redis is already assigned)
ConnectOutcomes == {"ok", "from_url", "ping"}

\* the commands of one call that raise: connect as above; get and setex
\* raise or not; hincrby is the number of HINCRBY commands that succeed
\* before one raises (3: none raises)
Fault(connect, get, hincrby, setex) ==
    [connect |-> connect, get |-> get, hincrby |-> hincrby, setex |-> setex]

NoFault == Fault("ok", FALSE, 3, FALSE)

Faults == {Fault(c, g, h, x) : c \in ConnectOutcomes, g \in BOOLEAN, h \in 0..3,
                               x \in BOOLEAN}

\* the store is unreachable: every command raises
Unreachable(fault) ==
    fault.connect = "ping" /\ fault.get /\ fault.hincrby = 0 /\ fault.setex

\* the client of a cache that get_semantic_cache built and connected
Connected ==
    /\ redis_client = Client
    /\ c_raised = NoError
    /\ store_fault = NoFault

\* SemanticCache._record_hit when only the first n HINCRBY commands succeed
RecordHitUpTo(st, hit_type, cache_type, n) ==
    LET s1 == IF n >= 1 THEN Hincrby(st, HitsField(hit_type)) ELSE st
        s2 == IF n >= 2 THEN Hincrby(s1, HitsField(cache_type)) ELSE s1
    IN IF n >= 3 THEN Hincrby(s2, TotalHits) ELSE s2

\* SemanticCache._record_miss when only the first n HINCRBY commands succeed
RecordMissUpTo(st, cache_type, n) ==
    LET s1 == IF n >= 1 THEN Hincrby(st, TotalMisses) ELSE st
    IN IF n >= 2 THEN Hincrby(s1, MissesField(cache_type)) ELSE s1

\* SemanticCache.get when GET may raise: the handler logs and returns None
GetUnreliable(r, key, fault) == IF fault.get THEN None ELSE Get(r, key)

\* SemanticCache._find_similar_cached when GET may raise: the handler around
\* the loop logs and returns None
FindSimilarUnreliable(sx, r, q, cache_type, fault) ==
    IF fault.get THEN {NotFound} ELSE FindSimilarCached(sx, r, q, cache_type)

\* SemanticCache.set when SETEX may raise: the handler logs, and the index
\* is not reached
SetUnreliable(r, sx, key, value, ttl, semantic_key, cache_type, max_size, fault) ==
    IF fault.setex THEN [redis |-> r, sx |-> sx]
    ELSE Set(r, sx, key, value, ttl, semantic_key, cache_type, max_size)

\* await cache.get_or_compute(...) while the commands named by fault raise
GetOrComputeUnreliable(key, cache_type, ttl, semantic_key, result, fault) ==
    /\ call.n < MaxFaultyOps
    /\ redis_client = Client => fault.connect = "ok"
    /\ store_fault' = fault
    /\ IF redis_client = NoClient /\ fault.connect # "ok"
       THEN \* connect() logs and re-raises
            /\ redis_client' = IF fault.connect = "ping" THEN Client ELSE NoClient
            /\ c_raised' = "ConnectionError"
            /\ call' = Call(call.n + 1, "get_or_compute", key, cache_type, semantic_key,
                            "none", FALSE, None, <<>>)
            /\ UNCHANGED <<redis, stats, index, query_cache, cache_embeddings, written>>
       ELSE /\ redis_client' = Client
            /\ c_raised' = NoError
            /\ LET cached == GetUnreliable(redis, key, fault) IN
               IF cached # None
               THEN /\ stats' = RecordHitUpTo(stats, ExactName, cache_type, fault.hincrby)
                    /\ call' = Call(call.n + 1, "get_or_compute", key, cache_type,
                                    semantic_key, "exact", FALSE, cached, key)
                    /\ UNCHANGED <<redis, index, query_cache, cache_embeddings, written>>
               ELSE \E found \in (IF semantic_key # NoEmbedding
                                  THEN FindSimilarUnreliable(SX, redis, semantic_key,
                                                             cache_type, fault)
                                  ELSE {NotFound}) :
                    IF found.value # None
                    THEN /\ stats' = RecordHitUpTo(stats, SemanticName, cache_type,
                                                   fault.hincrby)
                         /\ call' = Call(call.n + 1, "get_or_compute", key, cache_type,
                                         semantic_key, "semantic", FALSE, found.value,
                                         found.key)
                         /\ UNCHANGED <<redis, index, query_cache, cache_embeddings,
                                        written>>
                    ELSE LET after == SetUnreliable(redis, SX, key, result, ttl,
                                                    semantic_key, cache_type,
                                                    max_index_size, fault)
                         IN /\ stats' = RecordMissUpTo(stats, cache_type, fault.hincrby)
                            /\ redis' = after.redis
                            /\ SetIndex(after.sx)
                            /\ IF fault.setex THEN UNCHANGED written
                               ELSE Wrote(key, cache_type, ttl, result)
                            /\ call' = Call(call.n + 1, "get_or_compute", key, cache_type,
                                            semantic_key, "miss", TRUE, result, <<>>)
    /\ UNCHANGED max_index_size

----------------------------------------------------------------------------
\* Concurrent calls.  Two get_or_compute coroutines on one event loop; a
\* coroutine can be suspended at each await, so each awaited command is a
\* step of its own.

Tasks == {1, 2}

\* a task: where it stands, what compute_func returned to it, how the call
\* ended, and whether it invoked compute_func and wrote the exact tier
Task(pc, result, hit, computed, wrote) ==
    [pc |-> pc, result |-> result, hit |-> hit, computed |-> computed, wrote |-> wrote]

\* a call that has been made and has not run yet
StartTask == Task("get", None, "none", FALSE, FALSE)

\* no concurrent call
NoTask == Task("none", None, "none", FALSE, FALSE)
NoArgs == [key |-> <<>>, semantic_key |-> NoEmbedding, cache_type |-> <<>>]
NoTasks ==
    /\ tasks = [t \in Tasks |-> NoTask]
    /\ t_args = NoArgs

\* cached = await self.get(key); on a hit _record_hit and return
TaskGet(t) ==
    /\ tasks[t].pc = "get"
    /\ LET cached == Get(redis, t_args.key) IN
       IF cached # None
       THEN /\ stats' = RecordHit(stats, ExactName, t_args.cache_type)
            /\ tasks' = [tasks EXCEPT ![t] = Task("done", cached, "exact", FALSE, FALSE)]
       ELSE /\ tasks' = [tasks EXCEPT ![t].pc = "lookup"]
            /\ UNCHANGED stats
    /\ UNCHANGED <<max_index_size, redis, index, query_cache, cache_embeddings, call,
                   written, svars, t_args>>

\* similar_result = await self._find_similar_cached(...) when a vector was
\* given; on a hit _record_hit and return
TaskFindSimilar(t) ==
    /\ tasks[t].pc = "lookup"
    /\ \E found \in (IF t_args.semantic_key # NoEmbedding
                     THEN FindSimilarCached(SX, redis, t_args.semantic_key,
                                            t_args.cache_type)
                     ELSE {NotFound}) :
          IF found.value # None
          THEN /\ stats' = RecordHit(stats, SemanticName, t_args.cache_type)
               /\ tasks' = [tasks EXCEPT ![t] =
                               Task("done", found.value, "semantic", FALSE, FALSE)]
          ELSE /\ tasks' = [tasks EXCEPT ![t].pc = "record_miss"]
               /\ UNCHANGED stats
    /\ UNCHANGED <<max_index_size, redis, index, query_cache, cache_embeddings, call,
                   written, svars, t_args>>

\* await self._record_miss(cache_type)
TaskRecordMiss(t) ==
    /\ tasks[t].pc = "record_miss"
    /\ stats' = RecordMiss(stats, t_args.cache_type)
    /\ tasks' = [tasks EXCEPT ![t].pc = "compute"]
    /\ UNCHANGED <<max_index_size, redis, index, query_cache, cache_embeddings, call,
                   written, svars, t_args>>

\* result = await compute_func()
TaskCompute(t, result) ==
    /\ tasks[t].pc = "compute"
    /\ tasks' = [tasks EXCEPT ![t] = Task("setex", result, "miss", TRUE, FALSE)]
    /\ UNCHANGED <<cvars, svars, t_args>>

\* set(): await self.redis.setex(cache_key, ttl, serialized)
TaskSetex(t) ==
    /\ tasks[t].pc = "setex"
    /\ redis' = RedisSetex(redis, t_args.key, ttl_config[t_args.cache_type],
                           PickleDumps(tasks[t].result))
    /\ Wrote(t_args.key, t_args.cache_type, NoTtl, tasks[t].result)
    /\ tasks' = [tasks EXCEPT ![t].pc = "add_to_index", ![t].wrote = TRUE]
    /\ UNCHANGED <<max_index_size, stats, index, query_cache, cache_embeddings, call,
                   svars, t_args>>

\* set(): self._add_to_semantic_index(cache_key, semantic_key) when a vector
\* was given, and the return of get_or_compute
TaskAddToIndex(t) ==
    /\ tasks[t].pc = "add_to_index"
    /\ IF t_args.semantic_key # NoEmbedding
       THEN SetIndex(AddToSemanticIndex(SX, t_args.key, t_args.semantic_key,
                                        max_index_size))
       ELSE UNCHANGED <<index, query_cache, cache_embeddings>>
    /\ tasks' = [tasks EXCEPT ![t].pc = "done"]
    /\ UNCHANGED <<max_index_size, redis, stats, call, written, svars, t_args>>

----------------------------------------------------------------------------
\* Reranker.  Scores are in tenths, final scores in hundredths.

\* a key the chunk does not carry (dict.get answers None); no score has
\* this value
Missing == -100

\* values of the score fields retrieval leaves on a chunk
SimilarityValues == {Missing, 0, 8}
Bm25Values == {Missing, 5, 20}
RrfValues == {Missing, 2}

\* a retrieved chunk, as far as the reranker reads it
Chunk(similarity, bm25_score, rrf_score) ==
    [similarity |-> similarity, bm25_score |-> bm25_score, rrf_score |-> rrf_score]

Chunks == {Chunk(s, b, r) : s \in SimilarityValues, b \in Bm25Values, r \in RrfValues}

\* queries: empty, whitespace only, and a word with a leading blank
Queries == {<<>>, <<" ">>, <<" ", "a">>}

RECURSIVE LStrip(_)
LStrip(q) == IF q # <<>> /\ Head(q) = " " THEN LStrip(Tail(q)) ELSE q

RECURSIVE RStrip(_)
RStrip(q) ==
    IF q # <<>> /\ q[Len(q)] = " " THEN RStrip(SubSeq(q, 1, Len(q) - 1)) ELSE q

\* str.strip()
Strip(q) == RStrip(LStrip(q))

\* what the cross-encoder answers for a pair
RerankScores == {-5, 9}

\* original_score_weight and rerank_score_weight of rerank(), in tenths
original_score_weight == 3
rerank_score_weight == 7

\* 1.0, the cap of a lexical score
One == 10

\* Python's truthiness of dict.get(key): None and 0.0 are false
Truthy(v) == v # Missing /\ v # 0

\* doc.get("similarity") or doc.get("bm25_score") or doc.get("rrf_score") or 0.0,
\* then min(original_score, 1.0) when the chunk has the key bm25_score
OriginalScore(doc) ==
    LET chosen == IF Truthy(doc.similarity) THEN doc.similarity
                  ELSE IF Truthy(doc.bm25_score) THEN doc.bm25_score
                  ELSE IF Truthy(doc.rrf_score) THEN doc.rrf_score
                  ELSE 0
    IN IF doc.bm25_score # Missing THEN Min(chosen, One) ELSE chosen

\* Reranker._get_score_type
GetScoreType(doc) ==
    IF doc.rrf_score # Missing THEN "rrf"
    ELSE IF doc.similarity # Missing THEN "vector"
    ELSE IF doc.bm25_score # Missing THEN "bm25"
    ELSE "unknown"

\* the items one iteration of the loop of _combine_scores writes
RerankItems(doc, rerank_score) ==
    [rerank_score |-> rerank_score,
     final_score |-> original_score_weight * OriginalScore(doc)
                        + rerank_score_weight * rerank_score,
     original_score |-> OriginalScore(doc),
     original_score_type |-> GetScoreType(doc)]

\* one iteration of the loop of _combine_scores: the copy of the chunk with
\* the scores added
Combined(doc, rerank_score) ==
    SetItems(DictCopy(doc), RerankItems(doc, rerank_score)).value

\* Reranker._combine_scores
CombineScores(documents, scores) ==
    [i \in 1..Min(Len(documents), Len(scores)) |-> Combined(documents[i], scores[i])]

\* the list handed to _combine_scores, after the call
DocumentsAfterCombine(documents, scores) ==
    [i \in 1..Len(documents) |->
        IF i > Len(scores) THEN documents[i]
        ELSE Held(documents[i],
                  SetItems(DictCopy(documents[i]), RerankItems(documents[i], scores[i])))]

\* reranked_docs.sort(key=lambda x: x["final_score"], reverse=True)
SortByFinalScore(docs) ==
    LET order == SortedDesc([i \in 1..Len(docs) |-> i], Len(docs),
                            [i \in 1..Len(docs) |-> docs[i].final_score])
    IN [i \in 1..Len(docs) |-> docs[order[i]]]

\* mutant: the fallback forgets top_k
OriginalOrder_all(documents, top_k) == documents

\* documents[:top_k], the answer of every path that does not rerank
OriginalOrder(documents, top_k) == Take(documents, top_k)

\* the steps inside the try block of rerank() that can raise
RerankSteps == {"load_model", "prepare_pairs", "compute_scores", "combine_scores"}

\* a Reranker as constructed, not called
RIdle ==
    /\ r_model = None
    /\ r_pc = "idle"
    /\ r_query = <<>>
    /\ r_documents = <<>>
    /\ r_top_k = 0
    /\ r_stage = "none"
    /\ r_return = <<>>
    /\ r_raised = NoError

\* await reranker.rerank(query, documents, top_k); `raises` is the step that
\* raises during the call ("none": no step does) and `scores` what the
\* cross-encoder answers
Rerank(raises, scores) ==
    /\ r_pc = "called"
    /\ r_pc' = "done"
    /\ r_raised' = NoError
    /\ IF r_documents = <<>>
       THEN /\ r_return' = <<>>
            /\ r_stage' = "no_documents"
            /\ UNCHANGED <<r_model, r_documents>>
       ELSE IF r_query = <<>> \/ Strip(r_query) = <<>>
       THEN /\ r_return' = OriginalOrder(r_documents, r_top_k)
            /\ r_stage' = "empty_query"
            /\ UNCHANGED <<r_model, r_documents>>
       ELSE IF raises \in RerankSteps
       THEN /\ r_return' = OriginalOrder(r_documents, r_top_k)
            /\ r_stage' = raises
            /\ r_model' = IF raises = "load_model" THEN r_model ELSE "CrossEncoder"
            /\ UNCHANGED r_documents
       ELSE /\ r_return' = Take(SortByFinalScore(CombineScores(r_documents, scores)),
                                r_top_k)
            /\ r_documents' = DocumentsAfterCombine(r_documents, scores)
            /\ r_stage' = "none"
            /\ r_model' = "CrossEncoder"
    /\ UNCHANGED <<r_query, r_top_k>>

----------------------------------------------------------------------------
\* MMR selector.  Every embedding has Euclidean norm 5, so the cosine of two
\* of them is their dot product over 25; similarities are kept multiplied by
\* 25 and MMR scores by 250.

\* embeddings of norm 5
UnitEmbeddings == {<<5, 0>>, <<3, 4>>, <<0, 5>>}

\* 25 times sklearn's cosine_similarity of two embeddings of norm 5
CosineSimilarity(a, b) == Dot(a, b)

\* 25 times the similarity 1.0
FullSimilarity == 25

\* contents of one and of two words
Contents == {<<"a">>, <<"a", " ", " ", "b">>}

RECURSIVE WordCount(_, _)
\* len(content.split()): the runs of non-blank characters; inside says
\* whether the previous character was part of a word
WordCount(content, inside) ==
    IF content = <<>> THEN 0
    ELSE IF Head(content) = " " THEN WordCount(Tail(content), FALSE)
    ELSE (IF inside THEN 0 ELSE 1) + WordCount(Tail(content), TRUE)

\* the estimated token cost of a chunk
DocTokens(doc) == WordCount(doc.content, FALSE)

\* lambda_param of get_mmr_selector and MMRSelector.__init__ when none is
\* given, in tenths
DefaultLambda == 7

\* max_tokens is None
NoBudget == -1

\* a chunk handed to the selector; embedding is NoEmbedding when the chunk
\* does not carry one
Candidate(id, embedding, content) ==
    [id |-> id, embedding |-> embedding, content |-> content]

\* the lists handed to the selector: chunk i of a list has id i
CandidateListsOver(embeddings, contents) ==
    UNION {{[i \in 1..n |-> Candidate(i, f[i][1], f[i][2])] :
              f \in [1..n -> embeddings \X contents]} :
           n \in 0..MaxCandidates}

CandidateLists == CandidateListsOver(UnitEmbeddings \cup {NoEmbedding}, Contents)

RECURSIVE ValidDocs(_)
\* the loop of select_diverse that keeps the chunks that carry an embedding
ValidDocs(documents) ==
    IF documents = <<>> THEN <<>>
    ELSE IF Head(documents).embedding # NoEmbedding
         THEN <<Head(documents)>> \o ValidDocs(Tail(documents))
         ELSE ValidDocs(Tail(documents))

\* relevance_scores: similarity of every candidate to the query
RelevanceScores(query_embedding, documents) ==
    [i \in 1..Len(documents) |-> CosineSimilarity(query_embedding, documents[i].embedding)]

\* diversity of candidate idx from the selected ones: 1 - max similarity, and
\* 1.0 when nothing is selected
Diversity(documents, selected_indices, idx) ==
    IF selected_indices = <<>> THEN FullSimilarity
    ELSE LET sims == {CosineSimilarity(documents[idx].embedding,
                                       documents[selected_indices[j]].embedding) :
                         j \in 1..Len(selected_indices)}
             max_similarity == CHOOSE m \in sims : \A o \in sims : o <= m
         IN FullSimilarity - max_similarity

\* mmr = lambda * relevance + (1 - lambda) * diversity
\* mutant: the weights of relevance and diversity are exchanged
MmrScore_exchanged(relevance, diversity) ==
    (10 - lambda_param) * relevance + lambda_param * diversity

\* mmr = lambda * relevance + (1 - lambda) * diversity
MmrScore(relevance, diversity) == lambda_param * relevance + (10 - lambda_param) * diversity

\* int(np.argmax(mmr_scores)): the first position holding the largest score
ArgMax(scores) ==
    CHOOSE i \in 1..Len(scores) :
        /\ \A j \in 1..Len(scores) : scores[j] <= scores[i]
        /\ \A j \in 1..(i - 1) : scores[j] < scores[i]

\* the candidate the loop picks next: its index, and its score
BestCandidate(documents, relevance_scores, selected_indices, remaining_indices) ==
    LET mmr_scores == [l \in 1..Len(remaining_indices) |->
                          MmrScore(relevance_scores[remaining_indices[l]],
                                   Diversity(documents, selected_indices,
                                             remaining_indices[l]))]
        best_local_idx == ArgMax(mmr_scores)
    IN [idx |-> remaining_indices[best_local_idx], score |-> mmr_scores[best_local_idx]]

\* remaining_indices.remove(best_idx)
Remove(indices, idx) ==
    LET at == CHOOSE l \in 1..Len(indices) : indices[l] = idx
    IN SubSeq(indices, 1, at - 1) \o SubSeq(indices, at + 1, Len(indices))

\* the MMR metadata written for a chosen chunk
MmrItems(mmr_score, mmr_relevance, mmr_rank) ==
    [mmr_score |-> mmr_score, mmr_relevance |-> mmr_relevance, mmr_rank |-> mmr_rank]

\* the copy of the chosen chunk with the MMR metadata added
Annotated(doc, mmr_score, mmr_relevance, mmr_rank) ==
    SetItems(DictCopy(doc), MmrItems(mmr_score, mmr_relevance, mmr_rank)).value

\* the list handed to _mmr_selection, after the call; the chunks of a list
\* have different ids
DocumentsAfterSelection(documents, selected) ==
    [i \in 1..Len(documents) |->
        IF \E s \in 1..Len(selected) : selected[s].id = documents[i].id
        THEN LET a == selected[CHOOSE s \in 1..Len(selected) :
                                   selected[s].id = documents[i].id]
             IN Held(documents[i],
                     SetItems(DictCopy(documents[i]),
                              MmrItems(a.mmr_score, a.mmr_relevance, a.mmr_rank)))
        ELSE documents[i]]

\* the locals of _mmr_selection
Locals(selected, selected_indices, remaining_indices, current_tokens) ==
    [selected |-> selected, selected_indices |-> selected_indices,
     remaining_indices |-> remaining_indices, current_tokens |-> current_tokens]

\* the end of a loop iteration in which the best candidate was selected
Selected(documents, relevance_scores, max_tokens, st, best) ==
    Locals(Append(st.selected,
                  Annotated(documents[best.idx], best.score, relevance_scores[best.idx],
                            Len(st.selected) + 1)),
           Append(st.selected_indices, best.idx),
           Remove(st.remaining_indices, best.idx),
           IF max_tokens # NoBudget
           THEN st.current_tokens + DocTokens(documents[best.idx])
           ELSE st.current_tokens)

RECURSIVE MmrLoop_skip(_, _, _, _, _)
\* mutant: a best candidate that does not fit is passed over and the loop
\* goes on
MmrLoop_skip(documents, relevance_scores, max_documents, max_tokens, st) ==
    IF st.remaining_indices = <<>> \/ Len(st.selected) >= max_documents THEN st.selected
    ELSE LET best == BestCandidate(documents, relevance_scores, st.selected_indices,
                                   st.remaining_indices)
             doc_tokens == DocTokens(documents[best.idx])
         IN IF max_tokens # NoBudget /\ st.current_tokens + doc_tokens > max_tokens
            THEN MmrLoop_skip(documents, relevance_scores, max_documents, max_tokens,
                              [st EXCEPT !.remaining_indices = Remove(@, best.idx)])
            ELSE MmrLoop_skip(documents, relevance_scores, max_documents, max_tokens,
                              Selected(documents, relevance_scores, max_tokens, st, best))

RECURSIVE MmrLoop(_, _, _, _, _)
\* the while loop of _mmr_selection, from the state st of its locals
MmrLoop(documents, relevance_scores, max_documents, max_tokens, st) ==
    IF st.remaining_indices = <<>> \/ Len(st.selected) >= max_documents THEN st.selected
    ELSE LET best == BestCandidate(documents, relevance_scores, st.selected_indices,
                                   st.remaining_indices)
             doc_tokens == DocTokens(documents[best.idx])
         IN IF max_tokens # NoBudget /\ st.current_tokens + doc_tokens > max_tokens
            THEN st.selected
            ELSE MmrLoop(documents, relevance_scores, max_documents, max_tokens,
                         Selected(documents, relevance_scores, max_tokens, st, best))

\* MMRSelector._mmr_selection
MmrSelection(relevance_scores, documents, max_documents, max_tokens) ==
    MmrLoop(documents, relevance_scores, max_documents, max_tokens,
            Locals(<<>>, <<>>, [i \in 1..Len(documents) |-> i], 0))

\* an MMRSelector as constructed, not called
MIdle ==
    /\ lambda_param = DefaultLambda
    /\ m_pc = "idle"
    /\ m_query_embedding = NoEmbedding
    /\ m_documents = <<>>
    /\ m_max_documents = 0
    /\ m_max_tokens = NoBudget
    /\ m_stage = "none"
    /\ m_return = <<>>
    /\ m_raised = NoError

\* await selector.select_diverse(query_embedding, documents, max_documents,
\* max_tokens); `raises` says whether the similarity computation raises
SelectDiverse(raises) ==
    /\ m_pc = "called"
    /\ m_pc' = "done"
    /\ m_raised' = NoError
    /\ IF m_documents = <<>>
       THEN m_return' = <<>> /\ m_stage' = "no_documents" /\ UNCHANGED m_documents
       ELSE IF Len(m_documents) = 1
       THEN /\ m_return' = Take(m_documents, 1)
            /\ m_stage' = "one_document"
            /\ UNCHANGED m_documents
       ELSE LET valid_docs == ValidDocs(m_documents) IN
            IF valid_docs = <<>>
            THEN m_return' = <<>> /\ m_stage' = "no_valid_documents" /\ UNCHANGED m_documents
            ELSE IF raises
            THEN /\ m_return' = Take(m_documents, m_max_documents)
                 /\ m_stage' = "fallback"
                 /\ UNCHANGED m_documents
            ELSE /\ m_return' = MmrSelection(
                                    RelevanceScores(m_query_embedding, valid_docs),
                                    valid_docs, m_max_documents, m_max_tokens)
                 /\ m_documents' = DocumentsAfterSelection(m_documents, m_return')
                 /\ m_stage' = "selected"
    /\ UNCHANGED <<lambda_param, m_query_embedding, m_max_documents, m_max_tokens>>

----------------------------------------------------------------------------
\* generate_rag_response, from retrieval to the context.  Retrieval answers
\* at most MaxDocs chunks, and the reranker and the selector are asked for as
\* many.

\* a chunk as retrieval answers it; embedding is NoEmbedding when the row
\* does not carry the key
Retrieved(id, embedding, similarity, rrf_score) ==
    [id |-> id, content |-> <<"a">>, embedding |-> embedding, similarity |-> similarity,
     bm25_score |-> Missing, rrf_score |-> rrf_score]

\* the lists retrieval answers: chunk i of a list has id i
RetrievedLists ==
    UNION {{[i \in 1..n |-> Retrieved(i, f[i][1], 8, f[i][2])] :
              f \in [1..n -> ({NoEmbedding, <<5, 0>>, <<3, 4>>}) \X RrfValues]} :
           n \in 0..MaxDocs}

\* the settings read by the pipeline
Settings == [USE_RERANKING : BOOLEAN, USE_MMR : BOOLEAN]

\* no context built yet
NoContext == <<>>

\* build_context: the fixed sentence for an empty list, else one citation
\* for every chunk
BuildContext(documents) ==
    IF documents = <<>> THEN <<"No relevant documents found.">>
    ELSE [i \in 1..Len(documents) |-> <<"Document", i, documents[i].id>>]

\* no request is being served
PIdle ==
    /\ settings = [USE_RERANKING |-> TRUE, USE_MMR |-> TRUE]
    /\ p_pc = "idle"
    /\ p_query = <<>>
    /\ similar_docs = <<>>
    /\ p_retrieved = <<>>
    /\ p_context = NoContext
    /\ p_raised = NoError

----------------------------------------------------------------------------
\* SemanticCache.generate_cache_key.  Strings are sequences of characters.

\* the strings handed as arguments; one holds the separator of the key
\* string and one reads like a keyword item
KeyStrings == {<<"a">>, <<"a", ":", "a">>, <<"x", "=", "a">>}

\* *args
ArgLists == SeqsUpTo(KeyStrings, MaxLen)

\* **kwargs in the order the caller wrote them; every keyword has the
\* value "a"
KwargLists == {<<>>, <<"x">>, <<"y">>, <<"x", "y">>, <<"y", "x">>}

\* sorted(kwargs.items()): the keywords in alphabetical order
SortedItems(kwargs) ==
    LET has(k) == \E i \in 1..Len(kwargs) : kwargs[i] = k
    IN (IF has("x") THEN <<"x">> ELSE <<>>) \o (IF has("y") THEN <<"y">> ELSE <<>>)

\* f"{k}={v}"
Item(k) == <<k, "=", "a">>

RECURSIVE Join(_, _)
\* sep.join(parts)
Join(sep, parts) ==
    IF parts = <<>> THEN <<>>
    ELSE IF Len(parts) = 1 THEN parts[1]
    ELSE parts[1] \o sep \o Join(sep, Tail(parts))

\* hashlib.md5(s.encode()).hexdigest(), taken as free of collisions: the
\* digest stands for the string digested and for no other
Md5Hex(s) == [digest_of |-> s]

\* the value returned: f"{prefix}:{key_hash}"
CacheKey(prefix, key_hash) == [prefix |-> prefix, key_hash |-> key_hash]

\* SemanticCache.generate_cache_key
GenerateCacheKey(prefix, args, kwargs) ==
    LET sorted_items == SortedItems(kwargs)
        key_parts == <<prefix>> \o args
                        \o [i \in 1..Len(sorted_items) |-> Item(sorted_items[i])]
        key_string == Join(<<":">>, key_parts)
    IN CacheKey(prefix, Md5Hex(key_string))

\* a call of generate_cache_key with the prefix "t"
KeyCall(args, kwargs) == [prefix |-> <<"t">>, args |-> args, kwargs |-> kwargs]

\* the call has not returned
NoKey == CacheKey(<<>>, <<>>)

\* no call of generate_cache_key is being followed
KIdle ==
    /\ k_calls = <<>>
    /\ k_keys = <<>>

\* call n returns
GenerateCacheKeyCall(n) ==
    /\ n \in 1..Len(k_calls)
    /\ k_keys[n] = NoKey
    /\ k_keys' = [k_keys EXCEPT ![n] = GenerateCacheKey(k_calls[n].prefix, k_calls[n].args,
                                                        k_calls[n].kwargs)]
    /\ UNCHANGED k_calls

----------------------------------------------------------------------------
\* QueryProcessor.  Strings are sequences of characters; a character outside
\* ASCII is written by its code point.

\* str.lower() on the characters of the model
LowerChar(c) == IF c = "T" THEN "t" ELSE IF c = "U+00C9" THEN "U+00E9" ELSE c

Lower(text) == [i \in 1..Len(text) |-> LowerChar(text[i])]

\* unicodedata.normalize("NFKD", c): an accented letter becomes the letter
\* followed by the combining accent
NfkdChar(c) ==
    IF c = "U+00E1" THEN <<"a", "U+0301">>
    ELSE IF c = "U+00E3" THEN <<"a", "U+0303">>
    ELSE IF c = "U+00E7" THEN <<"c", "U+0327">>
    ELSE IF c = "U+00E9" THEN <<"e", "U+0301">>
    ELSE IF c = "U+00EA" THEN <<"e", "U+0302">>
    ELSE <<c>>

RECURSIVE Nfkd(_)
Nfkd(text) == IF text = <<>> THEN <<>> ELSE NfkdChar(Head(text)) \o Nfkd(Tail(text))

RECURSIVE Split(_, _)
\* text.split(): the runs of characters other than blanks; word is the run
\* being read
Split(text, word) ==
    IF text = <<>> THEN (IF word = <<>> THEN <<>> ELSE <<word>>)
    ELSE IF Head(text) = " "
         THEN (IF word = <<>> THEN <<>> ELSE <<word>>) \o Split(Tail(text), <<>>)
         ELSE Split(Tail(text), Append(word, Head(text)))

\* QueryProcessor._normalize_text
NormalizeText(text) ==
    IF text = <<>> THEN <<>>
    ELSE Join(<<" ">>, Split(Nfkd(Lower(text)), <<>>))

\* self.acronym_map as _load_acronyms answers it when config/acronyms.json
\* is not found
acronym_map == {}

\* QueryProcessor._expand_acronyms: the expansions of the acronyms found,
\* appended to the text
ExpandAcronyms(text) ==
    IF text = <<>> \/ acronym_map = {} THEN text
    ELSE text \o <<" ">> \o Join(<<" ">>, <<>>)

\* keyword in text_lower
Occurs(keyword, text) ==
    \E i \in 0..(Len(text) - Len(keyword)) : SubSeq(text, i + 1, i + Len(keyword)) = keyword

\* any(keyword in text_lower for keyword in keywords)
AnyOccurs(keywords, text) == \E keyword \in keywords : Occurs(keyword, text)

deadline_keywords ==
    {<<"p", "r", "a", "z", "o">>,
     <<"d", "a", "t", "a">>,
     <<"q", "u", "a", "n", "d", "o">>,
     <<"v", "e", "n", "c", "i", "m", "e", "n", "t", "o">>,
     <<"t", "U+00E9", "r", "m", "i", "n", "o">>,
     <<"d", "e", "a", "d", "l", "i", "n", "e">>}

requirement_keywords ==
    {<<"r", "e", "q", "u", "i", "s", "i", "t", "o">>,
     <<"e", "x", "i", "g", "U+00EA", "n", "c", "i", "a">>,
     <<"c", "o", "n", "d", "i", "U+00E7", "U+00E3", "o">>,
     <<"c", "r", "i", "t", "U+00E9", "r", "i", "o">>,
     <<"p", "r", "e", "c", "i", "s", "o">>,
     <<"n", "e", "c", "e", "s", "s", "U+00E1", "r", "i", "o">>}

process_keywords ==
    {<<"c", "o", "m", "o">>,
     <<"p", "r", "o", "c", "e", "s", "s", "o">>,
     <<"p", "r", "o", "c", "e", "d", "i", "m", "e", "n", "t", "o">>,
     <<"e", "t", "a", "p", "a">>,
     <<"p", "a", "s", "s", "o">>}

document_keywords ==
    {<<"e", "d", "i", "t", "a", "l">>,
     <<"p", "o", "r", "t", "a", "r", "i", "a">>,
     <<"d", "o", "c", "u", "m", "e", "n", "t", "o">>,
     <<"p", "u", "b", "l", "i", "c", "a", "U+00E7", "U+00E3", "o">>}

\* QueryIntent(category, confidence); the confidence in hundredths
QueryIntent(category, confidence) == [category |-> category, confidence |-> confidence]

\* mutant: the requirement keywords are tried before the deadline keywords
ClassifyIntent_requirement_first(text) ==
    LET text_lower == Lower(text)
    IN IF AnyOccurs(requirement_keywords, text_lower) THEN QueryIntent("requirement", 90)
       ELSE IF AnyOccurs(deadline_keywords, text_lower) THEN QueryIntent("deadline", 90)
       ELSE IF AnyOccurs(process_keywords, text_lower) THEN QueryIntent("process", 85)
       ELSE IF AnyOccurs(document_keywords, text_lower) THEN QueryIntent("document", 85)
       ELSE QueryIntent("general", 70)

\* QueryProcessor._classify_intent
ClassifyIntent(text) ==
    LET text_lower == Lower(text)
    IN IF AnyOccurs(deadline_keywords, text_lower) THEN QueryIntent("deadline", 90)
       ELSE IF AnyOccurs(requirement_keywords, text_lower) THEN QueryIntent("requirement", 90)
       ELSE IF AnyOccurs(process_keywords, text_lower) THEN QueryIntent("process", 85)
       ELSE IF AnyOccurs(document_keywords, text_lower) THEN QueryIntent("document", 85)
       ELSE QueryIntent("general", 70)

\* ProcessedQuery, as far as its texts and its intent
ProcessedQuery(original, normalized, expanded, intent) ==
    [original |-> original, normalized |-> normalized, expanded |-> expanded,
     intent |-> intent]

\* QueryProcessor.process
Process(query) ==
    IF query = <<>> \/ Strip(query) = <<>>
    THEN ProcessedQuery(<<>>, <<>>, <<>>, QueryIntent("general", 0))
    ELSE LET normalized == NormalizeText(query)
         IN ProcessedQuery(query, normalized, ExpandAcronyms(normalized),
                           ClassifyIntent(normalized))

\* the words queries are made of: one for every category, one that holds a
\* keyword inside another word, one with a capital and an accent, and one
\* without any keyword
Vocabulary ==
    {<<"p", "r", "a", "z", "o">>,
     <<"r", "e", "q", "u", "i", "s", "i", "t", "o">>,
     <<"c", "o", "m", "o">>,
     <<"e", "d", "i", "t", "a", "l">>,
     <<"c", "a", "n", "d", "i", "d", "a", "t", "a">>,
     <<"T", "U+00E9", "r", "m", "i", "n", "o">>,
     <<"i", "s", "s", "o">>}

\* the queries: empty, blank, and up to MaxLen words, separated by one blank
\* or led by a blank and separated by two
RawQueries ==
    {<<>>, <<" ">>}
        \cup {Join(<<" ">>, ws) : ws \in SeqsUpTo(Vocabulary, MaxLen) \ {<<>>}}
        \cup {<<" ">> \o Join(<<" ", " ">>, ws) : ws \in SeqsUpTo(Vocabulary, MaxLen) \ {<<>>}}

\* nothing returned yet
NoReturn == <<>>

\* no call on the query processor is being followed
QIdle ==
    /\ q_pc = "idle"
    /\ q_fn = "none"
    /\ q_arg = <<>>
    /\ q_return = NoReturn

\* await query_processor.process(query) returns
ProcessCall ==
    /\ q_pc = "called"
    /\ q_fn = "process"
    /\ q_return' = Process(q_arg)
    /\ q_pc' = "done"
    /\ UNCHANGED <<q_fn, q_arg>>

\* query_processor._classify_intent(text) returns
ClassifyIntentCall ==
    /\ q_pc = "called"
    /\ q_fn = "_classify_intent"
    /\ q_return' = ClassifyIntent(q_arg)
    /\ q_pc' = "done"
    /\ UNCHANGED <<q_fn, q_arg>>

----------------------------------------------------------------------------
\* A semantic lookup beside a writer.  Both are coroutines on one event
\* loop: each runs from one await to the next without interruption.

\* the locals of a _find_similar_cached call: the neighbours the index
\* answered that are still to be examined, the first being the one whose
\* key is being read from the store
Lookup(pc, query, cache_type, candidates, key, return) ==
    [pc |-> pc, query |-> query, cache_type |-> cache_type, candidates |-> candidates,
     key |-> key, return |-> return]

NoLookup == Lookup("idle", NoEmbedding, <<>>, <<>>, <<>>, NotFound)

\* a writer: the number of set() calls it has started and the arguments of
\* the one under way
Writer(pc, n, key, semantic_key) ==
    [pc |-> pc, n |-> n, key |-> key, semantic_key |-> semantic_key]

NoWriter == Writer("idle", 0, <<>>, NoEmbedding)

LIdle ==
    /\ lookup = NoLookup
    /\ writer = NoWriter
    /\ inserted = {}

\* distances, indices = self.index.search(query_embedding, k), as far as the
\* loop goes on with them: the positions among the min(k, ntotal) nearest
\* whose similarity reaches the threshold, nearest first; the order of
\* equally near positions is the index's choice
Neighbours(sx, q) ==
    LET near == {p \in 1..Len(sx.index) :
                    /\ NearerCount(sx, q, p) < Min(TopK, Len(sx.index))
                    /\ AtLeastThreshold(q, sx.index[p])}
    IN {s \in [1..Cardinality(near) -> near] :
           /\ \A i, j \in DOMAIN s : i # j => s[i] # s[j]
           /\ \A i, j \in DOMAIN s : i < j => ~Nearer(q, sx.index[s[j]], sx.index[s[i]])}

RECURSIVE Advance(_, _, _)
\* the loop up to its next await: the neighbours whose position has no key
\* in query_cache, or a key of another type, are passed over
Advance(candidates, qc, cache_type) ==
    IF candidates = <<>> THEN <<>>
    ELSE IF Head(candidates) \in DOMAIN qc /\ TypeMatches(qc[Head(candidates)], cache_type)
         THEN candidates
         ELSE Advance(Tail(candidates), qc, cache_type)

\* the lookup goes on with `candidates`: it awaits the store for the key of
\* the first that passes, or returns None
LookupGoesOn(query, cache_type, candidates) ==
    LET rest == Advance(candidates, query_cache, cache_type)
    IN IF rest = <<>>
       THEN Lookup("done", query, cache_type, <<>>, <<>>, NotFound)
       ELSE Lookup("get", query, cache_type, rest, query_cache[Head(rest)], NotFound)

\* await self._find_similar_cached(query_embedding, cache_type), up to its
\* first await
LookupSearch(q, cache_type) ==
    /\ lookup.pc = "idle"
    /\ IF index = <<>>
       THEN lookup' = Lookup("done", q, cache_type, <<>>, <<>>, NotFound)
       ELSE \E neighbours \in Neighbours(SX, q) :
               lookup' = LookupGoesOn(q, cache_type, neighbours)
    /\ UNCHANGED <<cvars, writer, inserted>>

\* cached = await self.redis.get(cache_key) answers: the value is returned,
\* or the loop goes on with the next neighbour
LookupRead ==
    /\ lookup.pc = "get"
    /\ LET cached == RedisGet(redis, lookup.key)
       IN IF cached # <<>>
          THEN lookup' = [lookup EXCEPT !.pc = "done",
                                        !.return = [key |-> lookup.key,
                                                    value |-> PickleLoads(cached)]]
          ELSE lookup' = LookupGoesOn(lookup.query, lookup.cache_type,
                                      Tail(lookup.candidates))
    /\ UNCHANGED <<cvars, writer, inserted>>

\* the writer calls set(key, value, semantic_key=..., cache_type=...): up
\* to await self.redis.setex(cache_key, ttl, serialized)
WriterSetex(key, semantic_key, value) ==
    /\ writer.pc = "idle"
    /\ writer.n < MaxWrites
    /\ redis' = RedisSetex(redis, key, ttl_config[CacheTypeOf(key)], PickleDumps(value))
    /\ writer' = Writer("add_to_index", writer.n + 1, key, semantic_key)
    /\ UNCHANGED <<max_index_size, stats, index, query_cache, cache_embeddings, call,
                   written, lookup, inserted>>

\* set(), after the store answered: self._add_to_semantic_index(cache_key,
\* semantic_key), and the return
WriterAddToIndex ==
    /\ writer.pc = "add_to_index"
    /\ SetIndex(AddToSemanticIndex(SX, writer.key, writer.semantic_key, max_index_size))
    /\ inserted' = inserted \cup {<<writer.key, writer.semantic_key>>}
    /\ writer' = Writer("idle", writer.n, <<>>, NoEmbedding)
    /\ UNCHANGED <<max_index_size, redis, stats, call, written, lookup>>

\* one second passes in the store
StoreAges ==
    /\ \E k \in Keys : redis[k] # NoEntry
    /\ redis' = RedisAge(redis)
    /\ UNCHANGED <<max_index_size, stats, index, query_cache, cache_embeddings, call,
                   written, lvars>>

----------------------------------------------------------------------------
\* get_or_compute callers beside reset_stats.  Every awaited store command
\* is a step of its own.

\* a caller: the await it stands at, its arguments, and the kind of hit it
\* is recording
Caller(pc, key, cache_type, semantic_key, hit_type, result) ==
    [pc |-> pc, key |-> key, cache_type |-> cache_type, semantic_key |-> semantic_key,
     hit_type |-> hit_type, result |-> result]

NoCaller == Caller("idle", <<>>, <<>>, NoEmbedding, <<>>, None)

\* no call started, none returned
NoneCompleted == [started |-> 0, returned |-> 0]

UIdle ==
    /\ callers = [t \in Tasks |-> NoCaller]
    /\ completed = NoneCompleted

\* caller t calls get_or_compute(key, compute_func, ttl=1, semantic_key,
\* cache_type)
CallerStart(t, key, cache_type, semantic_key) ==
    /\ callers[t].pc \in {"idle", "done"}
    /\ completed.started < MaxOps
    /\ callers' = [callers EXCEPT ![t] =
                      Caller("get", key, cache_type, semantic_key, <<>>, None)]
    /\ completed' = [completed EXCEPT !.started = @ + 1]
    /\ UNCHANGED cvars

\* cached = await self.get(key)
CallerGet(t) ==
    /\ callers[t].pc = "get"
    /\ LET cached == Get(redis, callers[t].key)
       IN callers' = [callers EXCEPT ![t] =
                         IF cached # None
                         THEN [@ EXCEPT !.pc = "hits_hit_type", !.hit_type = ExactName,
                                        !.result = cached]
                         ELSE [@ EXCEPT !.pc = "lookup"]]
    /\ UNCHANGED <<cvars, completed>>

\* similar_result = await self._find_similar_cached(...) when a vector was
\* given
CallerFindSimilar(t) ==
    /\ callers[t].pc = "lookup"
    /\ \E found \in (IF callers[t].semantic_key # NoEmbedding
                     THEN FindSimilarCached(SX, redis, callers[t].semantic_key,
                                            callers[t].cache_type)
                     ELSE {NotFound}) :
          callers' = [callers EXCEPT ![t] =
                         IF found.value # None
                         THEN [@ EXCEPT !.pc = "hits_hit_type", !.hit_type = SemanticName,
                                        !.result = found.value]
                         ELSE [@ EXCEPT !.pc = "total_misses"]]
    /\ UNCHANGED <<cvars, completed>>

\* one awaited HINCRBY of _record_hit or _record_miss; get_or_compute
\* returns after the last one of _record_hit
CallerHincrby(t) ==
    /\ callers[t].pc \in {"hits_hit_type", "hits_cache_type", "total_hits",
                          "total_misses", "misses_cache_type"}
    /\ stats' = Hincrby(stats,
                        CASE callers[t].pc = "hits_hit_type" -> HitsField(callers[t].hit_type)
                          [] callers[t].pc = "hits_cache_type" ->
                                 HitsField(callers[t].cache_type)
                          [] callers[t].pc = "total_hits" -> TotalHits
                          [] callers[t].pc = "total_misses" -> TotalMisses
                          [] OTHER -> MissesField(callers[t].cache_type))
    /\ callers' = [callers EXCEPT ![t].pc =
                      CASE @ = "hits_hit_type" -> "hits_cache_type"
                        [] @ = "hits_cache_type" -> "total_hits"
                        [] @ = "total_hits" -> "done"
                        [] @ = "total_misses" -> "misses_cache_type"
                        [] OTHER -> "compute"]
    /\ completed' = IF callers[t].pc = "total_hits"
                    THEN [completed EXCEPT !.returned = @ + 1]
                    ELSE completed
    /\ UNCHANGED <<max_index_size, redis, index, query_cache, cache_embeddings, call,
                   written>>

\* result = await compute_func()
CallerCompute(t, result) ==
    /\ callers[t].pc = "compute"
    /\ callers' = [callers EXCEPT ![t].pc = "setex", ![t].result = result]
    /\ UNCHANGED <<cvars, completed>>

\* set(): await self.redis.setex(...), then _add_to_semantic_index when a
\* vector was given, and the return of get_or_compute
CallerSetex(t) ==
    /\ callers[t].pc = "setex"
    /\ redis' = RedisSetex(redis, callers[t].key, 1, PickleDumps(callers[t].result))
    /\ IF callers[t].semantic_key # NoEmbedding
       THEN SetIndex(AddToSemanticIndex(SX, callers[t].key, callers[t].semantic_key,
                                        max_index_size))
       ELSE UNCHANGED <<index, query_cache, cache_embeddings>>
    /\ callers' = [callers EXCEPT ![t].pc = "done"]
    /\ completed' = [completed EXCEPT !.returned = @ + 1]
    /\ UNCHANGED <<max_index_size, stats, call, written>>

\* await cache.reset_stats(): DELETE rag:stats
ResetStatsBeside ==
    /\ stats' = NoStats
    /\ completed' = [completed EXCEPT !.returned = 0]
    /\ UNCHANGED <<max_index_size, redis, index, query_cache, cache_embeddings, call,
                   written, callers>>

AIdle == PIdle /\ KIdle /\ QIdle /\ LIdle /\ UIdle

\* Step 2: similar_docs = await hybrid_searcher.search(...) or
\* await search_similar_documents(...)
RagRetrieve(documents) ==
    /\ p_pc = "received"
    /\ similar_docs' = documents
    /\ p_retrieved' = documents
    /\ p_pc' = "retrieved"
    /\ UNCHANGED <<settings, p_query, p_context, p_raised, rvars, mvars>>

\* Step 3, up to the call of reranker.rerank
RagCallRerank ==
    /\ p_pc = "retrieved"
    /\ IF settings.USE_RERANKING /\ similar_docs # <<>>
       THEN /\ r_pc' = "called"
            /\ r_query' = p_query
            /\ r_documents' = similar_docs
            /\ r_top_k' = MaxDocs
            /\ r_stage' = "none"
            /\ r_return' = <<>>
            /\ p_pc' = "reranking"
            /\ UNCHANGED <<r_model, r_raised>>
       ELSE /\ p_pc' = "reranked"
            /\ UNCHANGED rvars
    /\ UNCHANGED <<settings, p_query, similar_docs, p_retrieved, p_context, p_raised, mvars>>

\* similar_docs = await reranker.rerank(...)
RagReranked ==
    /\ p_pc = "reranking"
    /\ r_pc = "done"
    /\ similar_docs' = r_return
    /\ p_pc' = "reranked"
    /\ UNCHANGED <<settings, p_query, p_retrieved, p_context, p_raised, rvars, mvars>>

\* Step 4, up to the call of select_diverse: query_embedding = await
\* generate_embedding(...), which raises when the embedding service fails;
\* and Step 5 when the selector is not used
RagEmbedQuery(ok, query_embedding) ==
    /\ p_pc = "reranked"
    /\ IF settings.USE_MMR /\ similar_docs # <<>>
       THEN IF ok
            THEN /\ m_pc' = "called"
                 /\ m_query_embedding' = query_embedding
                 /\ m_documents' = similar_docs
                 /\ m_max_documents' = MaxDocs
                 /\ m_max_tokens' = MaxBudget
                 /\ m_stage' = "none"
                 /\ m_return' = <<>>
                 /\ p_pc' = "selecting"
                 /\ UNCHANGED <<lambda_param, m_raised, p_context, p_raised>>
            ELSE /\ p_pc' = "failed"
                 /\ p_raised' = "generate_embedding"
                 /\ UNCHANGED <<mvars, p_context>>
       ELSE /\ p_pc' = "context"
            /\ p_context' = BuildContext(similar_docs)
            /\ UNCHANGED <<mvars, p_raised>>
    /\ UNCHANGED <<settings, p_query, similar_docs, p_retrieved, rvars>>

\* similar_docs = await mmr_selector.select_diverse(...), the diversity
\* metrics, which are only logged, and Step 5
RagSelected ==
    /\ p_pc = "selecting"
    /\ m_pc = "done"
    /\ similar_docs' = m_return
    /\ p_context' = BuildContext(m_return)
    /\ p_pc' = "context"
    /\ UNCHANGED <<settings, p_query, p_retrieved, p_raised, rvars, mvars>>

----------------------------------------------------------------------------
\* Specifications

HNext ==
    \/ SearchCall /\ UNCHANGED <<cvars, evars, avars>>
    \/ Gather /\ UNCHANGED <<cvars, evars, avars>>
    \/ Fallback /\ UNCHANGED <<cvars, evars, avars>>
    \/ Fuse /\ UNCHANGED <<cvars, evars, avars>>

\* a constructed searcher beside a constructed, connected cache
Init == HInit /\ CacheConstructed(DefaultMaxIndexSize) /\ Connected /\ NoTasks /\ RIdle /\ MIdle /\ AIdle

\* one search() call on a constructed searcher
SpecHybrid == Init /\ [][HNext]_vars

\* the searcher stays idle while the cache is exercised
HIdle == HInit /\ vector_weight = 6

\* a connected cache with the default index size
CInit == HIdle /\ CacheConstructed(DefaultMaxIndexSize) /\ Connected /\ NoTasks /\ RIdle /\ MIdle /\ AIdle

CNext ==
    \/ \E k \in Keys, ttl \in TtlArgs, e \in Embeddings \cup {NoEmbedding}, v \in Values :
          GetOrCompute(k, CacheTypeOf(k), ttl, e, v) /\ UNCHANGED <<hvars, evars, avars>>
    \/ \E k \in Keys : GetCall(k) /\ UNCHANGED <<hvars, evars, avars>>
    \/ \E k \in Keys, ttl \in TtlArgs, e \in Embeddings \cup {NoEmbedding}, v \in Values :
          SetCall(k, CacheTypeOf(k), ttl, e, v) /\ UNCHANGED <<hvars, evars, avars>>
    \/ \E p \in Patterns : InvalidatePattern(p) /\ UNCHANGED <<hvars, evars, avars>>
    \/ Tick /\ UNCHANGED <<hvars, evars, avars>>

\* sequential calls on one connected cache
SpecCache == CInit /\ [][CNext]_vars

\* configured sizes of the semantic index, below and above keep_items
IndexSizes == 1..KeepItems + 1

\* a cache constructed with any of the configured index sizes
IInit == HIdle /\ (\E m \in IndexSizes : CacheConstructed(m)) /\ Connected /\ NoTasks /\ RIdle /\ MIdle /\ AIdle

INext ==
    \E k \in Keys, e \in Embeddings : AddToIndexCall(k, e) /\ UNCHANGED <<hvars, evars, avars>>

\* insertions into the semantic index of a cache of any configured size
SpecIndex == IInit /\ [][INext]_vars

\* a cache that was constructed, and connected or not yet
FInit ==
    /\ HIdle
    /\ AIdle
    /\ CacheConstructed(DefaultMaxIndexSize)
    /\ redis_client \in {NoClient, Client}
    /\ c_raised = NoError
    /\ store_fault = NoFault
    /\ NoTasks
    /\ RIdle
    /\ MIdle

\* what callers pass while the store is unreliable
FaultyEmbeddings == {NoEmbedding, <<4, 0>>}
FaultyValues == {"v1", "v2"}

FNext ==
    \E k \in Keys, e \in FaultyEmbeddings, v \in FaultyValues, f \in Faults :
        GetOrComputeUnreliable(k, CacheTypeOf(k), NoTtl, e, v, f)
            /\ UNCHANGED <<hvars, tvars, rvars, mvars, avars>>

\* get_or_compute calls against a store whose commands may raise
SpecStore == FInit /\ [][FNext]_vars

\* two calls with the same arguments have been made on an empty cache
TInit ==
    /\ HIdle
    /\ AIdle
    /\ CacheConstructed(DefaultMaxIndexSize)
    /\ Connected
    /\ tasks = [t \in Tasks |-> StartTask]
    /\ RIdle
    /\ MIdle
    /\ \E k \in Keys, e \in FaultyEmbeddings :
          t_args = [key |-> k, semantic_key |-> e, cache_type |-> CacheTypeOf(k)]

TNext ==
    \/ \E t \in Tasks : TaskGet(t) /\ UNCHANGED <<hvars, rvars, mvars, avars>>
    \/ \E t \in Tasks : TaskFindSimilar(t) /\ UNCHANGED <<hvars, rvars, mvars, avars>>
    \/ \E t \in Tasks : TaskRecordMiss(t) /\ UNCHANGED <<hvars, rvars, mvars, avars>>
    \/ \E t \in Tasks, v \in FaultyValues : TaskCompute(t, v) /\ UNCHANGED <<hvars, rvars, mvars, avars>>
    \/ \E t \in Tasks : TaskSetex(t) /\ UNCHANGED <<hvars, rvars, mvars, avars>>
    \/ \E t \in Tasks : TaskAddToIndex(t) /\ UNCHANGED <<hvars, rvars, mvars, avars>>

\* two concurrent get_or_compute calls for one key
SpecTasks == TInit /\ [][TNext]_vars

\* patterns an operator sends to the invalidation endpoint: everything, and
\* one family of keys
OperatorPatterns == {<<"*">>, <<"q">>}

StatsNext ==
    \/ \E k \in Keys, v \in FaultyValues :
          GetOrCompute(k, CacheTypeOf(k), NoTtl, NoEmbedding, v)
              /\ UNCHANGED <<hvars, evars, avars>>
    \/ \E k \in Keys : GetCall(k) /\ UNCHANGED <<hvars, evars, avars>>
    \/ \E k \in Keys, v \in FaultyValues :
          SetCall(k, CacheTypeOf(k), NoTtl, NoEmbedding, v) /\ UNCHANGED <<hvars, evars, avars>>
    \/ \E p \in OperatorPatterns : InvalidatePattern(p) /\ UNCHANGED <<hvars, evars, avars>>
    \/ ResetStats /\ UNCHANGED <<hvars, evars, avars>>

\* cache calls and operator actions, with the statistics observed
SpecStats == CInit /\ [][StatsNext]_vars

\* rerank() has been called on a reranker whose model is loaded or not
RInit ==
    /\ HIdle
    /\ AIdle
    /\ CacheConstructed(DefaultMaxIndexSize)
    /\ Connected
    /\ NoTasks
    /\ r_model \in {None, "CrossEncoder"}
    /\ r_pc = "called"
    /\ r_query \in Queries
    /\ r_documents \in SeqsUpTo(Chunks, MaxDocs)
    /\ r_top_k \in 0..MaxTopK
    /\ r_stage = "none"
    /\ r_return = <<>>
    /\ r_raised = NoError
    /\ MIdle

RNext ==
    \E raises \in RerankSteps \cup {"none"}, scores \in [1..Len(r_documents) -> RerankScores] :
        /\ r_model # None => raises # "load_model"
        /\ Rerank(raises, scores)
        /\ UNCHANGED <<hvars, cvars, svars, tvars, mvars, avars>>

\* one rerank() call
SpecRerank == RInit /\ [][RNext]_vars

\* select_diverse() has been called
MInit ==
    /\ HIdle
    /\ AIdle
    /\ CacheConstructed(DefaultMaxIndexSize)
    /\ Connected
    /\ NoTasks
    /\ RIdle
    /\ lambda_param = DefaultLambda
    /\ m_pc = "called"
    /\ m_query_embedding \in {<<5, 0>>, <<3, 4>>}
    /\ m_documents \in CandidateLists
    /\ m_max_documents \in 1..MaxCandidates
    /\ m_max_tokens \in {NoBudget} \cup 1..MaxBudget
    /\ m_stage = "none"
    /\ m_return = <<>>
    /\ m_raised = NoError

MNext ==
    \E raises \in BOOLEAN :
        SelectDiverse(raises) /\ UNCHANGED <<hvars, cvars, svars, tvars, rvars, avars>>

\* one select_diverse() call
SpecMMR == MInit /\ [][MNext]_vars

\* the trade-offs a selector is constructed with: pure diversity, balanced,
\* pure relevance
Lambdas == {0, 5, 10}

\* embeddings of norm 5, one of them opposite to another
SignedEmbeddings == UnitEmbeddings \cup {<<-5, 0>>}

\* select_diverse() has been called, without a token budget, on a selector
\* constructed with any trade-off
LInit ==
    /\ HIdle
    /\ AIdle
    /\ CacheConstructed(DefaultMaxIndexSize)
    /\ Connected
    /\ NoTasks
    /\ RIdle
    /\ lambda_param \in Lambdas
    /\ m_pc = "called"
    /\ m_query_embedding \in {<<5, 0>>, <<3, 4>>}
    /\ m_documents \in CandidateListsOver(SignedEmbeddings \cup {NoEmbedding}, {<<"a">>})
    /\ m_max_documents \in 1..MaxCandidates
    /\ m_max_tokens = NoBudget
    /\ m_stage = "none"
    /\ m_return = <<>>
    /\ m_raised = NoError

\* one select_diverse() call on a selector with any trade-off
SpecLambda == LInit /\ [][MNext]_vars

\* a request has been received, under any settings
PInit ==
    /\ HIdle
    /\ CacheConstructed(DefaultMaxIndexSize)
    /\ Connected
    /\ NoTasks
    /\ RIdle
    /\ MIdle
    /\ KIdle
    /\ QIdle
    /\ LIdle
    /\ UIdle
    /\ settings \in Settings
    /\ p_pc = "received"
    /\ p_query = <<"a">>
    /\ similar_docs = <<>>
    /\ p_retrieved = <<>>
    /\ p_context = NoContext
    /\ p_raised = NoError

PNext ==
    \/ \E documents \in RetrievedLists :
          RagRetrieve(documents) /\ UNCHANGED <<hvars, cvars, svars, tvars, kvars, qvars, lvars, uvars>>
    \/ RagCallRerank /\ UNCHANGED <<hvars, cvars, svars, tvars, kvars, qvars, lvars, uvars>>
    \/ \E raises \in RerankSteps \cup {"none"},
          scores \in [1..Len(r_documents) -> RerankScores] :
          Rerank(raises, scores) /\ UNCHANGED <<hvars, cvars, svars, tvars, mvars, avars>>
    \/ RagReranked /\ UNCHANGED <<hvars, cvars, svars, tvars, kvars, qvars, lvars, uvars>>
    \/ \E ok \in BOOLEAN, query_embedding \in {<<5, 0>>, <<3, 4>>} :
          RagEmbedQuery(ok, query_embedding) /\ UNCHANGED <<hvars, cvars, svars, tvars, kvars, qvars, lvars, uvars>>
    \/ \E raises \in BOOLEAN :
          SelectDiverse(raises) /\ UNCHANGED <<hvars, cvars, svars, tvars, rvars, avars>>
    \/ RagSelected /\ UNCHANGED <<hvars, cvars, svars, tvars, kvars, qvars, lvars, uvars>>

\* one request through generate_rag_response
SpecRag == PInit /\ [][PNext]_vars

\* two calls of generate_cache_key have been made
KInit ==
    /\ HIdle
    /\ CacheConstructed(DefaultMaxIndexSize)
    /\ Connected
    /\ NoTasks
    /\ RIdle
    /\ MIdle
    /\ PIdle
    /\ QIdle
    /\ LIdle
    /\ UIdle
    /\ k_calls \in [1..2 -> {KeyCall(a, k) : a \in ArgLists, k \in KwargLists}]
    /\ k_keys = [n \in 1..2 |-> NoKey]

KNext ==
    \E n \in 1..2 : GenerateCacheKeyCall(n) /\ UNCHANGED <<hvars, cvars, evars, pvars, qvars, lvars, uvars>>

\* two calls of generate_cache_key
SpecKeys == KInit /\ [][KNext]_vars

\* process has been called with a query, or _classify_intent with a
\* normalized text
QInit ==
    /\ HIdle
    /\ CacheConstructed(DefaultMaxIndexSize)
    /\ Connected
    /\ NoTasks
    /\ RIdle
    /\ MIdle
    /\ PIdle
    /\ KIdle
    /\ LIdle
    /\ UIdle
    /\ q_pc = "called"
    /\ \/ q_fn = "process" /\ q_arg \in RawQueries
       \/ q_fn = "_classify_intent" /\ q_arg \in {NormalizeText(q) : q \in RawQueries}
    /\ q_return = NoReturn

QNext ==
    \/ ProcessCall /\ UNCHANGED <<hvars, cvars, evars, pvars, kvars, lvars, uvars>>
    \/ ClassifyIntentCall /\ UNCHANGED <<hvars, cvars, evars, pvars, kvars, lvars, uvars>>

\* one call on the query processor
SpecIntent == QInit /\ [][QNext]_vars

\* the vectors of the writer and of the lookup: one direction and another
\* far from it
LookupEmbeddings == {<<4, 0>>, <<0, 4>>}

\* a connected cache whose index holds at most keep_items vectors, nothing
\* cached
LInitCache ==
    /\ HIdle
    /\ CacheConstructed(KeepItems)
    /\ Connected
    /\ NoTasks
    /\ RIdle
    /\ MIdle
    /\ AIdle

LNext ==
    \/ \E q \in LookupEmbeddings, cache_type \in {<<"s">>} :
          LookupSearch(q, cache_type) /\ UNCHANGED <<hvars, evars, pvars, kvars, qvars, uvars>>
    \/ LookupRead /\ UNCHANGED <<hvars, evars, pvars, kvars, qvars, uvars>>
    \/ \E k \in Keys, e \in LookupEmbeddings :
          WriterSetex(k, e, "v1") /\ UNCHANGED <<hvars, evars, pvars, kvars, qvars, uvars>>
    \/ WriterAddToIndex /\ UNCHANGED <<hvars, evars, pvars, kvars, qvars, uvars>>
    \/ StoreAges /\ UNCHANGED <<hvars, evars, pvars, kvars, qvars, uvars>>

\* a semantic lookup beside a writer, on a cache with a small index
SpecLookup == LInitCache /\ [][LNext]_vars

\* the cache_type names of the callers: one of the configuration, and the
\* name of a kind of hit
CallerTypes == {<<"s">>, ExactName}

UNext ==
    \/ \E t \in Tasks, cache_type \in CallerTypes, e \in {NoEmbedding, <<4, 0>>} :
          CallerStart(t, KeyS, cache_type, e) /\ UNCHANGED <<hvars, evars, pvars, kvars, qvars, lvars>>
    \/ \E t \in Tasks : CallerGet(t) /\ UNCHANGED <<hvars, evars, pvars, kvars, qvars, lvars>>
    \/ \E t \in Tasks :
          CallerFindSimilar(t) /\ UNCHANGED <<hvars, evars, pvars, kvars, qvars, lvars>>
    \/ \E t \in Tasks : CallerHincrby(t) /\ UNCHANGED <<hvars, evars, pvars, kvars, qvars, lvars>>
    \/ \E t \in Tasks :
          CallerCompute(t, "v1") /\ UNCHANGED <<hvars, evars, pvars, kvars, qvars, lvars>>
    \/ \E t \in Tasks : CallerSetex(t) /\ UNCHANGED <<hvars, evars, pvars, kvars, qvars, lvars>>
    \/ ResetStatsBeside /\ UNCHANGED <<hvars, evars, pvars, kvars, qvars, lvars>>

\* get_or_compute callers beside reset_stats, on one connected cache
SpecCounters == CInit /\ [][UNext]_vars

\* one call of one of the three stages
StagesInit == Init \/ RInit \/ LInit

StagesNext ==
    \/ r_pc = "idle" /\ m_pc = "idle" /\ HNext
    \/ RNext
    \/ MNext

SpecStages == StagesInit /\ [][StagesNext]_vars

----------------------------------------------------------------------------
\* Properties of hybrid search

\* search() has returned normally
Returned == h_pc = "done" /\ h_raised = NoError

VectorFailed == vector_task.outcome = "raise"
Bm25Failed == bm25_task.outcome = "raise"

\* the fusion of what the branches that did not raise answered
SurvivorFusion ==
    ReciprocalRankFusion(vector_weight, bm25_weight,
                         IF VectorFailed THEN <<>> ELSE DenseList(vector_task.rows),
                         IF Bm25Failed THEN <<>> ELSE LexicalList(bm25_task.rows))

\* C1 (as claimed): when exactly one of the two retrieval calls raises,
\* search does not raise and returns the fusion of the surviving branch's
\* results, cut to limit; search raises only when both branches raise.
C1_SingleFailureDegrades ==
    h_pc = "done" =>
        /\ (VectorFailed # Bm25Failed =>
                h_raised = NoError /\ h_return = Take(SurvivorFusion, limit))
        /\ (h_raised # NoError => VectorFailed /\ Bm25Failed)

\* ids carried by the rows of a result list
IdsOf(results) == {results[i].id : i \in 1..Len(results)} \ {NoId}

UniqueIds == IdsOf(vector_results) \cup IdsOf(bm25_results)

\* ranks at which id occurs in a list
RanksOf(results, id) == {r \in 1..Len(results) : results[r].id = id}

\* the sum of w/(k+r) over the occurrences of id in the two lists
FusionScore(id) ==
    SumOver(RanksOf(vector_results, id),
            [r \in 1..MaxLen + 1 |-> (vector_weight * RRFScale) \div (rrf_k + r)])
  + SumOver(RanksOf(bm25_results, id),
            [r \in 1..MaxLen + 1 |-> (bm25_weight * RRFScale) \div (rrf_k + r)])

\* position of the first occurrence of id in the dense list followed by the
\* lexical list
FirstSeen(id) ==
    IF RanksOf(vector_results, id) # {}
    THEN CHOOSE r \in RanksOf(vector_results, id) :
            \A q \in RanksOf(vector_results, id) : r <= q
    ELSE Len(vector_results) +
         (CHOOSE r \in RanksOf(bm25_results, id) :
            \A q \in RanksOf(bm25_results, id) : r <= q)

\* a comes before b in the fused ranking
Precedes(a, b) ==
    \/ FusionScore(a) > FusionScore(b)
    \/ FusionScore(a) = FusionScore(b) /\ FirstSeen(a) < FirstSeen(b)

\* C2: search returns the first `limit` chunks of the unique chunks ordered
\* by descending fusion score, ties in first-seen order (dense list first,
\* then lexical); at most `limit` chunks, hybrid_rank is the 1-based position.
C2_SortedTruncated ==
    Returned =>
        /\ Len(h_return) = Min(limit, Cardinality(UniqueIds))
        /\ \A i \in 1..Len(h_return) :
              /\ h_return[i].id \in UniqueIds
              /\ h_return[i].hybrid_rank = i
              /\ \A j \in i + 1..Len(h_return) : Precedes(h_return[i].id, h_return[j].id)
              /\ \A u \in UniqueIds \ {h_return[j].id : j \in 1..Len(h_return)} :
                    Precedes(h_return[i].id, u)

\* C2 witness: two chunks tie on the fusion score and the fused list is cut
C2_Witness ==
    /\ Returned
    /\ Len(h_return) = 2
    /\ h_return[1].rrf_score = h_return[2].rrf_score
    /\ Len(fused_results) > Len(h_return)

\* C3: each fused chunk's rrf_score is the sum of vector_weight/(rrf_k+r)
\* over its occurrences at rank r of the dense list plus bm25_weight/(rrf_k+r)
\* over its occurrences in the lexical list, r counting every row returned;
\* with k=60, weights 0.6/0.4 and rank 1 in both lists it is 0.6/61 + 0.4/61.
C3_RRFScore ==
    h_pc = "done" /\ h_raised = NoError =>
        \A i \in 1..Len(fused_results) :
            LET d == fused_results[i] IN
            /\ d.rrf_score = FusionScore(d.id)
            /\ (/\ vector_weight = 6 /\ bm25_weight = 4
                /\ RanksOf(vector_results, d.id) = {1}
                /\ RanksOf(bm25_results, d.id) = {1})
               => d.rrf_score * 61 = 10 * RRFScale

\* C3 witness: a chunk ranked 2nd behind a row without id in the dense list
\* and occurring twice in the lexical list
C3_Witness ==
    /\ Returned
    /\ \E i \in 1..Len(fused_results) :
          /\ Len(vector_results) = 2 /\ vector_results[1].id = NoId
          /\ vector_results[2].id = fused_results[i].id
          /\ Cardinality(RanksOf(bm25_results, fused_results[i].id)) = 2

\* the {method, rank, score} entry of one occurrence
VectorEntry(r) == [method |-> "vector", rank |-> r, score |-> vector_results[r].similarity]
Bm25Entry(r) == [method |-> "bm25", rank |-> r, score |-> bm25_results[r].bm25_score]

EntriesOf(d) == {d.source_methods[n] : n \in 1..Len(d.source_methods)}

\* the fused ids are pairwise distinct and are the union of the ids of both lists
FusedIdsAreUnion ==
    /\ \A i, j \in 1..Len(fused_results) :
          fused_results[i].id = fused_results[j].id => i = j
    /\ {fused_results[i].id : i \in 1..Len(fused_results)} = UniqueIds

\* C4 (as claimed): the fused ids are pairwise distinct and exactly the
\* union of the ids of the two lists, and each chunk carries one
\* source_methods entry per contributing method.
C4_OneEntryPerMethod ==
    Returned =>
        /\ FusedIdsAreUnion
        /\ \A i \in 1..Len(fused_results) :
              LET d == fused_results[i] IN
              /\ Cardinality({n \in 1..Len(d.source_methods) :
                                d.source_methods[n].method = "vector"})
                 = (IF RanksOf(vector_results, d.id) # {} THEN 1 ELSE 0)
              /\ Cardinality({n \in 1..Len(d.source_methods) :
                                d.source_methods[n].method = "bm25"})
                 = (IF RanksOf(bm25_results, d.id) # {} THEN 1 ELSE 0)

\* C4 (amended): the fused ids are pairwise distinct and exactly the union
\* of the ids of the two lists, and each chunk carries one source_methods
\* entry {method, rank, score} per occurrence of its id in either list.
C4_OneEntryPerOccurrence ==
    Returned =>
        /\ FusedIdsAreUnion
        /\ \A i \in 1..Len(fused_results) :
              LET d == fused_results[i] IN
              /\ EntriesOf(d) = {VectorEntry(r) : r \in RanksOf(vector_results, d.id)}
                                \cup {Bm25Entry(r) : r \in RanksOf(bm25_results, d.id)}
              /\ Len(d.source_methods) = Cardinality(RanksOf(vector_results, d.id))
                                         + Cardinality(RanksOf(bm25_results, d.id))

\* C4 witness: a chunk present in both lists next to a dropped row
C4_Witness ==
    /\ Returned
    /\ Len(fused_results) = 1
    /\ Len(fused_results[1].source_methods) = 2
    /\ \E r \in 1..Len(vector_results) : vector_results[r].id = NoId
    /\ RanksOf(bm25_results, fused_results[1].id) # {}

----------------------------------------------------------------------------
\* Properties of the semantic cache

\* the step is a get_or_compute call
GetOrComputeStep == call'.n = call.n + 1 /\ call'.op = "get_or_compute"

\* the exact tier holds a value for key: it was written and has neither
\* expired nor been invalidated since
Resolves(key) == written[key] # Unwritten

IndexUnchanged ==
    /\ index' = index
    /\ query_cache' = query_cache
    /\ cache_embeddings' = cache_embeddings

\* C5 (as claimed): get_or_compute consults the exact tier first; when the
\* key resolves there it returns that value, records an 'exact' hit and
\* neither invokes compute_func nor writes a value; compute_func is invoked
\* only after the exact and the semantic lookup have missed, and its result
\* is then stored under the key, so a repeated call with the same key before
\* expiry or invalidation does not invoke compute_func again.
C5_ExactTierFirst ==
    [][GetOrComputeStep =>
        LET k == call'.key IN
        /\ Resolves(k) =>
              /\ ~call'.computed
              /\ call'.hit = "exact"
              /\ call'.value = written[k].value
              /\ redis' = redis /\ IndexUnchanged
              /\ stats'[HitsField(ExactName)] = stats[HitsField(ExactName)] + 1
        /\ call'.computed =>
              /\ ~Resolves(k)
              /\ call'.emb # NoEmbedding =>
                    \E f \in FindSimilarCached(SX, redis, call'.emb, call'.cache_type) :
                        f.value = None
              /\ written'[k].value = call'.value /\ written'[k].left > 0
              /\ redis'[k].data = PickleDumps(call'.value)]_vars

\* positions of the index that hold a vector within the threshold of e and
\* belong to a key other than k that was stored under cache_type, still
\* resolves, and holds a value
LiveNeighbours(k, e, cache_type) ==
    {p \in DOMAIN query_cache :
        /\ p \in 1..Len(index)
        /\ AtLeastThreshold(e, index[p])
        /\ query_cache[p] # k
        /\ CacheTypeOf(query_cache[p]) = cache_type
        /\ Resolves(query_cache[p])
        /\ written[query_cache[p]].value # None}

\* C6 (as claimed): once a value V is stored under cache type T with vector
\* E1 and still resolves, every get_or_compute with cache type T, another
\* key (absent from the exact tier) and a vector within the threshold of E1
\* returns the value of the nearest such neighbour without invoking
\* compute_func.
C6_SemanticHit ==
    [][(/\ GetOrComputeStep
        /\ call'.emb # NoEmbedding
        /\ ~Resolves(call'.key)
        /\ LiveNeighbours(call'.key, call'.emb, call'.cache_type) # {}) =>
        LET near == LiveNeighbours(call'.key, call'.emb, call'.cache_type) IN
        /\ ~call'.computed
        /\ call'.hit = "semantic"
        /\ \E p \in near :
              /\ call'.value = written[query_cache[p]].value
              /\ \A o \in near : ~Nearer(call'.emb, index[o], index[p])]_vars

\* C7 (as claimed): a semantic hit of get_or_compute(..., cache_type=T)
\* returns a value that was stored with cache type T.
C7_SameCacheType ==
    (call.op = "get_or_compute" /\ call.hit = "semantic") =>
        CacheTypeOf(call.src) = call.cache_type

Matching(e) == {p \in 1..Len(index) : AtLeastThreshold(e, index[p])}

\* C9: invalidate_pattern leaves the semantic index untouched, and a
\* get_or_compute whose vector matches only index entries whose key has been
\* invalidated or has expired records a miss, invokes compute_func and
\* returns (and stores) the computed result.
C9_StaleIsMiss ==
    [][/\ (call'.n = call.n + 1 /\ call'.op = "invalidate_pattern") => IndexUnchanged
       /\ (/\ GetOrComputeStep
           /\ call'.emb # NoEmbedding
           /\ ~Resolves(call'.key)
           /\ \A p \in Matching(call'.emb) : ~Resolves(query_cache[p])) =>
          /\ call'.hit = "miss"
          /\ call'.computed
          /\ redis'[call'.key].data = PickleDumps(call'.value)
          /\ stats'[TotalMisses] = stats[TotalMisses] + 1
          /\ stats'[TotalHits] = stats[TotalHits]]_vars

\* C9 witness: a miss although the index still holds a matching entry of a
\* key that no longer resolves
C9_Witness ==
    /\ call.op = "get_or_compute"
    /\ call.hit = "miss"
    /\ call.emb # NoEmbedding
    /\ \E p \in 1..Len(index) - 1 :
          /\ AtLeastThreshold(call.emb, index[p])
          /\ query_cache[p] # call.key
          /\ ~Resolves(query_cache[p])

\* C10 (as claimed): on return from each insertion the semantic index holds
\* at most max_index_size entries, whatever max_index_size is configured.
C10_IndexCapped ==
    call.op = "_add_to_semantic_index" => Len(index) <= max_index_size

\* C11: get_or_compute never surfaces a store failure: whatever store
\* commands raise during the call, no exception leaves it, and when the store
\* is unreachable (every command raises) compute_func is invoked and its
\* result is returned.
C11_StoreFailureIsMiss ==
    [][call'.n = call.n + 1 /\ call'.op = "get_or_compute"
       => /\ c_raised' = NoError
          /\ Unreachable(store_fault') => call'.computed /\ call'.hit = "miss"]_vars

\* both concurrent calls have returned
AllDone == \A t \in Tasks : tasks[t].pc = "done"

\* both concurrent calls found the key absent in both tiers
AllMissed == \A t \in Tasks : tasks[t].hit = "miss"

\* index positions that hold the key of the concurrent calls
EntriesForKey == {p \in DOMAIN query_cache : query_cache[p] = t_args.key}

\* C12: get_or_compute has no single-flight guarantee.  When two concurrent
\* calls with the same key both pass the lookups before either has written,
\* nothing makes the second wait for the first: compute_func is invoked
\* twice, the exact tier is written twice and, when a semantic vector was
\* supplied, the index holds two entries for the key.  The witness is the
\* interleaving in which this happens.
C12_NoSingleFlight ==
    AllDone /\ AllMissed
        => /\ \A t \in Tasks : tasks[t].computed /\ tasks[t].wrote
           /\ t_args.semantic_key # NoEmbedding => Cardinality(EntriesForKey) = 2
           /\ t_args.semantic_key # NoEmbedding => Len(index) = 2

\* C12: both calls have returned after a miss, with a semantic vector
C12_Witness ==
    /\ AllDone
    /\ AllMissed
    /\ t_args.semantic_key # NoEmbedding
    /\ \A t \in Tasks : tasks[t].computed /\ tasks[t].wrote
    /\ Cardinality(EntriesForKey) = 2

\* C13: invalidate_pattern(p) deletes exactly the exact-tier entries whose
\* key matches the glob p: after the call the matching keys hold nothing and
\* every other key holds what it held before.
C13_DeletesExactlyMatching ==
    [][call'.n = call.n + 1 /\ call'.op = "invalidate_pattern"
       => \A k \in Keys :
             /\ GlobMatch(call'.key, k) => redis'[k] = NoEntry
             /\ ~GlobMatch(call'.key, k) => redis'[k] = redis[k]]_vars

\* C14: every statistics counter is non-decreasing over every cache
\* operation other than reset_stats, invalidate_pattern with any pattern
\* included.
C14_CountersMonotonic ==
    [][call'.n = call.n + 1 /\ call'.op # "reset_stats"
       => \A f \in StatFields : stats'[f] >= stats[f]]_vars

\* rerank() did not rerank: the query was empty or blank, or a step raised
FailedOpen == r_pc = "done" /\ r_stage \in RerankSteps \cup {"empty_query"}

\* C15: rerank fails open.  When the query is empty or whitespace-only, or
\* when loading the model, preparing the pairs, computing the scores or
\* combining them raises, rerank does not raise and returns the first top_k
\* input chunks, the same records in their incoming order, nothing added.
C15_FailsOpen ==
    FailedOpen
        => /\ r_raised = NoError
           /\ Len(r_return) = Min(r_top_k, Len(r_documents))
           /\ \A i \in 1..Len(r_return) : r_return[i] = r_documents[i]

\* C15: the scoring step raised on a list longer than top_k
C15_Witness ==
    /\ FailedOpen
    /\ r_stage = "compute_scores"
    /\ r_top_k = 1
    /\ Len(r_documents) = 2
    /\ r_documents[1] # r_documents[2]
    /\ r_return = <<r_documents[1]>>

\* rerank() reranked: every step ran
Reranked == r_pc = "done" /\ r_stage = "none"

\* the first populated field in the order similarity, bm25_score (at most
\* 1.0), rrf_score, and 0.0 when none is populated
FirstPopulated(doc) ==
    IF doc.similarity # Missing THEN doc.similarity
    ELSE IF doc.bm25_score # Missing THEN Min(doc.bm25_score, One)
    ELSE IF doc.rrf_score # Missing THEN doc.rrf_score
    ELSE 0

\* C16: the original score _combine_scores uses for a chunk is the value of
\* its first populated field in the order similarity, bm25_score, rrf_score:
\* a chunk that carries similarity uses it whatever its value and whatever
\* its other scores.
C16_FirstPopulatedField ==
    Reranked => \A i \in 1..Len(r_return) :
                   r_return[i].original_score = FirstPopulated(r_return[i])

\* _mmr_selection ran with a token budget
SelectedWithBudget == m_pc = "done" /\ m_stage = "selected" /\ m_max_tokens # NoBudget

\* positions, in the list of valid chunks, of the first n returned chunks
SelectedPositions(n) ==
    [i \in 1..n |-> CHOOSE q \in 1..Len(ValidDocs(m_documents)) :
                        ValidDocs(m_documents)[q].id = m_return[i].id]

\* positions of the valid chunks not among the first n returned, ascending
RECURSIVE Ascending(_, _)
Ascending(S, upto) ==
    IF upto = 0 THEN <<>>
    ELSE IF upto \in S THEN Append(Ascending(S, upto - 1), upto)
    ELSE Ascending(S, upto - 1)

RemainingPositions(n) ==
    Ascending({q \in 1..Len(ValidDocs(m_documents)) :
                  \A i \in 1..n : SelectedPositions(n)[i] # q},
              Len(ValidDocs(m_documents)))

\* the best-scoring remaining candidate once the first n returned chunks
\* are selected
BestAfter(n) ==
    BestCandidate(ValidDocs(m_documents),
                  RelevanceScores(m_query_embedding, ValidDocs(m_documents)),
                  SelectedPositions(n), RemainingPositions(n)).idx

\* token total of the first n returned chunks
RECURSIVE TokensOf(_, _)
TokensOf(docs, n) == IF n = 0 THEN 0 ELSE TokensOf(docs, n - 1) + DocTokens(docs[n])

\* selection ended before max_documents chunks were selected and before the
\* candidates ran out
StoppedEarly ==
    /\ Len(m_return) < m_max_documents
    /\ Len(m_return) < Len(ValidDocs(m_documents))

\* C17: the MMR token budget is a hard early stop.  Every returned chunk was
\* the best-scoring remaining candidate when it was selected and fitted the
\* budget; and when selection ends early, the best-scoring remaining
\* candidate would have exceeded max_tokens, so nothing ranked below it was
\* selected, whether it would fit or not.
C17_HardEarlyStop ==
    SelectedWithBudget
        => /\ \A n \in 0..(Len(m_return) - 1) :
                 /\ SelectedPositions(n + 1)[n + 1] = BestAfter(n)
                 /\ TokensOf(m_return, n + 1) <= m_max_tokens
           /\ StoppedEarly
                 => TokensOf(m_return, Len(m_return))
                       + DocTokens(ValidDocs(m_documents)[BestAfter(Len(m_return))])
                    > m_max_tokens

\* C17: selection stopped on a candidate that did not fit although another
\* remaining candidate would have fitted
C17_Witness ==
    /\ SelectedWithBudget
    /\ StoppedEarly
    /\ Len(m_return) >= 1
    /\ \E q \in 1..Len(ValidDocs(m_documents)) :
          /\ \A i \in 1..Len(m_return) : m_return[i].id # ValidDocs(m_documents)[q].id
          /\ TokensOf(m_return, Len(m_return)) + DocTokens(ValidDocs(m_documents)[q])
                <= m_max_tokens

\* C18: whatever the input list, when max_tokens is set the returned chunks
\* fit the budget and there are at most max_documents of them.
C18_FitsBudget ==
    m_pc = "done" /\ m_max_tokens # NoBudget
        => /\ TokensOf(m_return, Len(m_return)) <= m_max_tokens
           /\ Len(m_return) <= m_max_documents

\* C19: whatever the input list, no chunk without an embedding is part of
\* the output of select_diverse, and the call does not raise.
C19_NoChunkWithoutEmbedding ==
    m_pc = "done"
        => /\ m_raised = NoError
           /\ \A i \in 1..Len(m_return) : m_return[i].embedding # NoEmbedding

\* C20: when 0 or 1 candidates remain after the chunks without an embedding
\* are filtered out, select_diverse returns them unchanged: the empty list,
\* or the one remaining record exactly as it was passed in.
C20_FewCandidatesUnchanged ==
    m_pc = "done" /\ Len(ValidDocs(m_documents)) <= 1
        => m_return = ValidDocs(m_documents)

\* _mmr_selection ran
SelectionRan == m_pc = "done" /\ m_stage = "selected"

\* relevance of the candidates: similarity of each to the query
Relevances == RelevanceScores(m_query_embedding, ValidDocs(m_documents))

\* no two candidates are equally relevant
DistinctRelevance ==
    \A i, j \in 1..Len(Relevances) : i # j => Relevances[i] # Relevances[j]

\* number of candidates more relevant than candidate q
MoreRelevant(q) == Cardinality({o \in 1..Len(Relevances) : Relevances[o] > Relevances[q]})

\* C21: with lambda_param = 1.0 and no token budget, over N candidates of
\* pairwise distinct relevance select_diverse returns min(N, max_documents)
\* chunks and the i-th is the i-th most relevant candidate: the result of
\* sorting by relevance, strictly descending.
C21_PureRelevanceOrder ==
    SelectionRan /\ lambda_param = 10 /\ m_max_tokens = NoBudget /\ DistinctRelevance
        => /\ Len(m_return) = Min(Len(ValidDocs(m_documents)), m_max_documents)
           /\ \A i \in 1..Len(m_return) :
                 /\ MoreRelevant(SelectedPositions(Len(m_return))[i]) = i - 1
                 /\ m_return[i].mmr_relevance = Relevances[SelectedPositions(Len(m_return))[i]]
           /\ \A i \in 1..(Len(m_return) - 1) :
                 m_return[i].mmr_relevance > m_return[i + 1].mmr_relevance

\* C21: three candidates handed over in an order other than by relevance
\* came back in descending relevance
C21_Witness ==
    /\ SelectionRan
    /\ lambda_param = 10
    /\ DistinctRelevance
    /\ Len(m_return) = 3
    /\ Relevances[1] < Relevances[2]
    /\ m_return[1].mmr_relevance > m_return[2].mmr_relevance
    /\ m_return[2].mmr_relevance > m_return[3].mmr_relevance

\* C22: with lambda_param = 0.0 the first chunk selected is the candidate
\* most relevant to the query, whatever the order of the input list.
C22_FirstIsMostRelevant ==
    SelectionRan /\ lambda_param = 0 /\ m_return # <<>>
        => \A q \in 1..Len(Relevances) : Relevances[q] <= m_return[1].mmr_relevance

\* C23: mmr_score is non-increasing in selection order, for every
\* lambda_param and every set of candidate embeddings.
C23_ScoresNonIncreasing ==
    SelectionRan
        => \A i \in 1..(Len(m_return) - 1) : m_return[i].mmr_score >= m_return[i + 1].mmr_score

----------------------------------------------------------------------------
\* Properties of the pipeline

\* C24: when the reranker or the selector fails, by an exception inside the
\* stage or because no candidate carries an embedding, the request does not
\* fail and a list that was not empty is not replaced by an empty one: the
\* context is built from the list of the stage before.
C24_StagesFailOpen ==
    /\ r_raised = NoError
    /\ m_raised = NoError
    /\ p_pc = "context" /\ p_retrieved # <<>> => similar_docs # <<>>

\* every chunk of outputs has the items of a chunk of inputs, its id among
\* them
Carried(inputs, outputs) ==
    \A o \in 1..Len(outputs) :
        \E i \in 1..Len(inputs) :
            \A key \in DOMAIN inputs[i] : outputs[o][key] = inputs[i][key]

\* C25: a call of _reciprocal_rank_fusion, rerank or select_diverse leaves
\* the list it was handed and every chunk of it as they were, and every
\* chunk it returns has the items, the id among them, of a chunk it was
\* handed.
C25_NoStageMutatesInput ==
    [][/\ h_pc = "fuse" /\ h_pc' = "done" =>
            /\ vector_results' = vector_results
            /\ bm25_results' = bm25_results
            /\ Carried(vector_results \o bm25_results, fused_results')
       /\ r_pc = "called" /\ r_pc' = "done" =>
            /\ r_documents' = r_documents
            /\ Carried(r_documents, r_return')
       /\ m_pc = "called" /\ m_pc' = "done" =>
            /\ m_documents' = m_documents
            /\ Carried(m_documents, m_return')]_vars

\* C25 witness: the selector has annotated and returned two chunks of the
\* list it was handed.
C25_Witness ==
    /\ m_pc = "done"
    /\ m_stage = "selected"
    /\ Len(m_return) = 2
    /\ \A s \in 1..2 : m_return[s].mmr_rank = s
    /\ Len(m_documents) = 3

----------------------------------------------------------------------------
\* Properties of the cache keys

BothReturned == k_calls # <<>> /\ \A n \in 1..2 : k_keys[n] # NoKey

\* the keyword arguments as the dictionary the callee receives
KwargsDict(kwargs) == {kwargs[i] : i \in 1..Len(kwargs)}

SameArguments ==
    /\ k_calls[1].args = k_calls[2].args
    /\ KwargsDict(k_calls[1].kwargs) = KwargsDict(k_calls[2].kwargs)

\* C26: two calls of generate_cache_key with the same prefix return the same
\* key when their positional arguments are equal and their keyword
\* arguments are equal in whatever order, and different keys when their
\* arguments differ, the digest being free of collisions.
C26_KeyTellsArguments == BothReturned => (k_keys[1] = k_keys[2] <=> SameArguments)

----------------------------------------------------------------------------
\* Properties of the query processor

\* the categories in their order of priority, each with its keywords and its
\* confidence
Categories == <<"deadline", "requirement", "process", "document", "general">>

KeywordsOf(category) ==
    CASE category = "deadline" -> deadline_keywords
      [] category = "requirement" -> requirement_keywords
      [] category = "process" -> process_keywords
      [] category = "document" -> document_keywords
      [] OTHER -> {}

ConfidenceOf(category) ==
    CASE category \in {"deadline", "requirement"} -> 90
      [] category \in {"process", "document"} -> 85
      [] OTHER -> 70

\* the text the classifier was handed
ClassifiedText == IF q_fn = "process" THEN NormalizeText(q_arg) ELSE q_arg

ClassifiedIntent == IF q_fn = "process" THEN q_return.intent ELSE q_return

EmptyQuery == q_fn = "process" /\ Strip(q_arg) = <<>>

\* C27: the intent of a query that is not empty is the first category, in
\* the order deadline, requirement, process, document, that has a keyword
\* occurring in the normalized text, with the confidence of that category,
\* and general when none has; process answers an empty or blank query with
\* the intent general of confidence 0.0 and empty texts.
C27_FirstMatchWins ==
    q_pc = "done" =>
        IF EmptyQuery
        THEN q_return = ProcessedQuery(<<>>, <<>>, <<>>, QueryIntent("general", 0))
        ELSE \E n \in 1..Len(Categories) :
                /\ ClassifiedIntent = QueryIntent(Categories[n], ConfidenceOf(Categories[n]))
                /\ n < Len(Categories) => AnyOccurs(KeywordsOf(Categories[n]), ClassifiedText)
                /\ \A h \in 1..(n - 1) : ~AnyOccurs(KeywordsOf(Categories[h]), ClassifiedText)

\* C27 witness: process has classified as deadline a query that also holds a
\* requirement keyword.
C27_Witness ==
    /\ q_pc = "done"
    /\ q_fn = "process"
    /\ AnyOccurs(requirement_keywords, NormalizeText(q_arg))
    /\ AnyOccurs(deadline_keywords, NormalizeText(q_arg))
    /\ q_return.intent.category = "deadline"

----------------------------------------------------------------------------
\* Properties of a lookup beside a writer

\* the three structures of the index agree
IndexConsistent ==
    /\ Len(cache_embeddings) = Len(index)
    /\ DOMAIN query_cache = 1..Len(index)

\* the lookup returned the value of a key
LookupHit == lookup.pc = "done" /\ lookup.return # NotFound

\* C28: whatever the interleaving of a semantic lookup with set() calls,
\* the index, cache_embeddings and query_cache have the same size and
\* query_cache has the keys 0..size-1, and the lookup returns only the
\* value of a key that was inserted together with a vector whose similarity
\* to the query reaches the threshold, also when an insertion rebuilds the
\* index while the lookup awaits the store.
C28_LookupMatchesQuery ==
    /\ IndexConsistent
    /\ LookupHit =>
          \E pair \in inserted :
              /\ pair[1] = lookup.return.key
              /\ AtLeastThreshold(lookup.query, pair[2])

----------------------------------------------------------------------------
\* Properties of the hit counters

\* no get_or_compute call is under way
Quiescent == \A t \in Tasks : callers[t].pc \in {"idle", "done"}

\* C29: whenever no cache operation is under way, total_hits equals
\* hits_exact + hits_semantic, and total_hits + total_misses equals the
\* number of get_or_compute calls that returned since the last reset,
\* whatever the interleaving of the calls with reset_stats and whatever the
\* cache_type names.
C29_CountersAgree ==
    Quiescent =>
        /\ stats[TotalHits] = stats[HitsField(ExactName)] + stats[HitsField(SemanticName)]
        /\ stats[TotalHits] + stats[TotalMisses] = completed.returned

\* C30: on every chunk a successful rerank returns, original_score_type
\* names the field original_score was taken from: vector for similarity,
\* bm25 for bm25_score, rrf for rrf_score, unknown for the default 0.0, also
\* when the chunk carries several score fields.
C30_TypeNamesScoreField ==
    Reranked =>
        \A i \in 1..Len(r_return) :
            r_return[i].original_score_type =
                (IF Truthy(r_return[i].similarity) THEN "vector"
                 ELSE IF Truthy(r_return[i].bm25_score) THEN "bm25"
                 ELSE IF Truthy(r_return[i].rrf_score) THEN "rrf"
                 ELSE "unknown")

====
